---- MODULE Spec2Model ----
(***************************************************************************)
(* Track-selection engine: the track library (library.py), the journey     *)
(* planner (journey_planner.py) and their data model (models.py).          *)
(*                                                                         *)
(* Tempos and times are floats in the source.  Every tempo, tolerance and  *)
(* duration used here is an integer for which the source's float           *)
(* arithmetic and the exact integer arithmetic below give the same         *)
(* comparison results (no value lies on a band boundary).                  *)
(***************************************************************************)
EXTENDS Integers, Sequences, FiniteSets, TLC

\* Python's None (an absent Optional field)
None == "None"

Abs(x) == IF x < 0 THEN 0 - x ELSE x

Max(a, b) == IF a >= b THEN a ELSE b

\* Python int(): truncation toward zero of the quotient a / b (b # 0)
TruncDiv(a, b) ==
    LET q == Abs(a) \div Abs(b)
    IN IF (a < 0) = (b < 0) THEN q ELSE 0 - q

Range(s) == { s[k] : k \in 1..Len(s) }

(***************************************************************************)
(* models.py: MusicalKey, an enum whose values are Camelot strings.  A     *)
(* value is kept as its sequence of characters so that the parsing done by *)
(* are_keys_compatible (value[:-1], value[-1]) is modelled as parsing.     *)
(***************************************************************************)
DigitChars == <<"0", "1", "2", "3", "4", "5", "6", "7", "8", "9">>

\* the Camelot string of position n and letter l, e.g. Camelot(10, "A") = "10A"
Camelot(n, l) ==
    IF n < 10 THEN <<DigitChars[n + 1], l>>
    ELSE <<DigitChars[(n \div 10) + 1], DigitChars[(n % 10) + 1], l>>

MusicalKey == { Camelot(n, l) : n \in 1..12, l \in {"A", "B"} }

DigitValue(c) == CHOOSE d \in 0..9 : DigitChars[d + 1] = c

\* Python int(str) of a string of decimal digits
RECURSIVE ParseInt(_)
ParseInt(s) ==
    IF s = <<>> THEN 0
    ELSE 10 * ParseInt(SubSeq(s, 1, Len(s) - 1)) + DigitValue(s[Len(s)])

\* are_keys_compatible without the wrap-around of the circle (12 next to 1)
are_keys_compatible_no_wrap(key1, key2) ==
    IF key1 = key2 THEN TRUE
    ELSE LET num1 == ParseInt(SubSeq(key1, 1, Len(key1) - 1))
             letter1 == key1[Len(key1)]
             num2 == ParseInt(SubSeq(key2, 1, Len(key2) - 1))
             letter2 == key2[Len(key2)]
         IN IF num1 = num2 THEN TRUE
            ELSE IF letter1 = letter2
                 THEN LET diff == Abs(num1 - num2) IN diff = 1
                 ELSE FALSE

(***************************************************************************)
(* library.py: TrackLibrary.are_keys_compatible                            *)
(***************************************************************************)
are_keys_compatible(key1, key2) ==
    IF key1 = key2 THEN TRUE
    ELSE LET num1 == ParseInt(SubSeq(key1, 1, Len(key1) - 1))
             letter1 == key1[Len(key1)]
             num2 == ParseInt(SubSeq(key2, 1, Len(key2) - 1))
             letter2 == key2[Len(key2)]
         IN IF num1 = num2 THEN TRUE
            ELSE IF letter1 = letter2
                 THEN LET diff == Abs(num1 - num2) IN diff = 1 \/ diff = 11
                 ELSE FALSE

(***************************************************************************)
(* models.py: TrackMetadata.  An absent key is NoKey, an absent cue marker *)
(* is NoTime, an absent label or journey position is None.  Only the       *)
(* fields the library and the planner read are kept.                       *)
(***************************************************************************)
NoKey == <<>>

NoTime == 0 - 1

\* float('nan'), the tempo extract_metadata gives a file whose BPM tag reads
\* "nan"; int() raises ValueError on it.  It is written as a number no tempo
\* has, and no tempo arithmetic of this module is applied to it.
NaN == 0 - 1

TrackMetadata(path, artist, bpm, key, duration, energy, textures, position, label, intro, outro) ==
    [file_path |-> path, artist |-> artist, bpm |-> bpm, key |-> key,
     duration |-> duration, energy_level |-> energy, textures |-> textures,
     journey_position |-> position, label |-> label,
     intro_start |-> intro, outro_start |-> outro]

\* The tracks a library can hold in this model.  "a.wav" occurs twice with
\* different tags: the same file catalogued under two entries.
Catalogue ==
    { TrackMetadata("a.wav", "Fluxion", 120, Camelot(8, "A"), 360, 5,
                    <<"atmospheric", "dub">>, "opener", "Echocord Colour",
                    NoTime, 300),
      TrackMetadata("a.wav", "Fluxion", 120, Camelot(8, "A"), 360, 6,
                    <<"dub">>, None, None, NoTime, NoTime),
      TrackMetadata("b.wav", "Fluxion", 240, Camelot(3, "A"), 300, 5,
                    <<>>, "opener", "Kompakt", 16, 0),
      TrackMetadata("c.wav", "Deepchord", 124, NoKey, 420, 6,
                    <<"hypnotic">>, "core", "Lucidflow", 0, 390),
      TrackMetadata("d.wav", "Deepchord", 128, Camelot(9, "A"), 30, 5,
                    <<"minimal">>, None, None, NoTime, NoTime),
      TrackMetadata("e.wav", "Quantec", 60, Camelot(8, "B"), 400, 3,
                    <<"minimal", "dub">>, None, None, 8, 340) }

\* largest number of entries of a library
MaxLib == 3

\* Python's `lbl in label` for the label strings of the model
IsSubstring(lbl, label) ==
    \/ lbl = label
    \/ <<lbl, label>> \in { <<"Echocord", "Echocord Colour">> }

\* the list [0, 1, ..] of positions of a list, as 1-based track references
Indices(lib) == [k \in 1..Len(lib) |-> k]

(***************************************************************************)
(* library.py: TrackLibrary queries.  A track object is referred to by its *)
(* position in the library's primary list; lib[j] is its value.            *)
(***************************************************************************)
find_tracks_by_bpm_range(lib, min_bpm, max_bpm) ==
    SelectSeq(Indices(lib),
              LAMBDA j : min_bpm <= lib[j].bpm /\ lib[j].bpm <= max_bpm)

\* abs(track_bpm / ref_bpm - centre) <= tol / 100.0, centre given doubled
\* (2 for 1.0, 4 for 2.0, 1 for 0.5)
ratio_within(track_bpm, ref_bpm, centre2, tol) ==
    50 * Abs(2 * track_bpm - centre2 * ref_bpm) <= tol * ref_bpm

band_1_1(track_bpm, ref_bpm, tol) == ratio_within(track_bpm, ref_bpm, 2, tol)

band_2_1(track_bpm, ref_bpm, tol) == ratio_within(track_bpm, ref_bpm, 4, tol)

\* the 1:2 band tested against 2.0 again instead of 0.5
band_1_2_wrong_centre(track_bpm, ref_bpm, tol) ==
    ratio_within(track_bpm, ref_bpm, 4, tol)

band_1_2(track_bpm, ref_bpm, tol) == ratio_within(track_bpm, ref_bpm, 1, tol)

bpm_ok(track_bpm, ref_bpm, tol) ==
    \/ band_1_1(track_bpm, ref_bpm, tol)
    \/ band_2_1(track_bpm, ref_bpm, tol)
    \/ band_1_2(track_bpm, ref_bpm, tol)

\* `track is reference_track`: the same object
same_track_by_identity(lib, j, reference) == j = reference

\* `track == reference_track` of two TrackMetadata dataclass instances:
\* field-by-field equality
same_track(lib, j, reference) == lib[j] = lib[reference]

get_compatible_tracks(lib, reference, bpm_tolerance, key_compatible_only) ==
    SelectSeq(Indices(lib),
              LAMBDA j :
                 /\ ~same_track(lib, j, reference)
                 /\ bpm_ok(lib[j].bpm, lib[reference].bpm, bpm_tolerance)
                 /\ ~(/\ key_compatible_only
                      /\ lib[reference].key # NoKey
                      /\ lib[j].key # NoKey
                      /\ ~are_keys_compatible(lib[reference].key, lib[j].key)))

(***************************************************************************)
(* journey_planner.py: JourneyPlanner._generate_energy_curve               *)
(***************************************************************************)
\* Python list slice s[:n]
SliceTo(s, n) ==
    IF n >= 0 THEN SubSeq(s, 1, IF n < Len(s) THEN n ELSE Len(s))
    ELSE SubSeq(s, 1, Max(0, Len(s) + n))

\* [f(i) for i in range(n)] is built below as [k \in 1..n |-> f(k - 1)];
\* range(n) is empty for n <= 0
gradual_build_opening(third) ==
    IF third <= 0 THEN <<>>
    ELSE [k \in 1..third |-> 2 + ((k - 1) % 3)]

\* energy = 4 + int((i / third) * 3)
gradual_build_build(third) ==
    IF third <= 0 THEN <<>>
    ELSE [k \in 1..third |-> 4 + TruncDiv(3 * (k - 1), third)]

\* for i in range(num_tracks - len(curve)): the range is fixed on entry
\* (remaining), while the divisor num_tracks - len(curve) is read again in
\* every pass, after i appends: it is remaining - i
gradual_build_descent(remaining) ==
    IF remaining <= 0 THEN <<>>
    ELSE [k \in 1..remaining |->
             Max(7 - TruncDiv(2 * (k - 1), remaining - (k - 1)), 5)]

gradual_build_curve(num_tracks) ==
    LET third == num_tracks \div 3
        first == gradual_build_opening(third) \o gradual_build_build(third)
    IN SliceTo(first \o gradual_build_descent(num_tracks - Len(first)),
               num_tracks)

\* peak_at = int(num_tracks * 0.65)
peak_at(num_tracks) == TruncDiv(65 * num_tracks, 100)

\* the build ramp without its division by peak_at
peak_and_descent_curve_unscaled(num_tracks) ==
    LET peak == peak_at(num_tracks)
        rest == num_tracks - peak
        build == IF peak <= 0 THEN <<>>
                 ELSE [k \in 1..peak |-> 2 + 6 * (k - 1)]
        descent == IF rest <= 0 THEN <<>>
                   ELSE [k \in 1..rest |->
                            Max(8 - TruncDiv(5 * (k - 1), rest), 3)]
    IN SliceTo(build \o descent, num_tracks)

peak_and_descent_curve(num_tracks) ==
    LET peak == peak_at(num_tracks)
        rest == num_tracks - peak
        build == IF peak <= 0 THEN <<>>
                 ELSE [k \in 1..peak |-> 2 + TruncDiv(6 * (k - 1), peak)]
        descent == IF rest <= 0 THEN <<>>
                   ELSE [k \in 1..rest |->
                            Max(8 - TruncDiv(5 * (k - 1), rest), 3)]
    IN SliceTo(build \o descent, num_tracks)

steady_curve(num_tracks) ==
    IF num_tracks <= 0 THEN <<>>
    ELSE [k \in 1..num_tracks |-> 5 + ((k - 1) % 2)]

\* [5] * num_tracks
default_curve(num_tracks) ==
    IF num_tracks <= 0 THEN <<>>
    ELSE [k \in 1..num_tracks |-> 5]

generate_energy_curve(num_tracks, progression) ==
    IF progression = "gradual_build" THEN gradual_build_curve(num_tracks)
    ELSE IF progression = "peak_and_descent"
         THEN peak_and_descent_curve(num_tracks)
    ELSE IF progression = "steady" THEN steady_curve(num_tracks)
    ELSE default_curve(num_tracks)

(***************************************************************************)
(* journey_planner.py: JourneyPlanner.create_journey_arc                   *)
(***************************************************************************)
avg_track_minutes == 6

\* The (duration_minutes, blend_duration) pairs, among the inputs used in
\* this module, at which the double-precision quotient
\* duration_minutes / (avg_track_minutes - blend_duration / 60) comes out just
\* below an integer that the exact quotient reaches: blend_duration / 60 is
\* not representable in binary, the rounded divisor is a little too large,
\* and int() then truncates to the integer below (81 / (6 - 0.6) evaluates
\* to 14.999999999999998).
quotient_rounds_below ==
    { <<66, 96>>, <<70, 80>>, <<73, 68>>, <<81, 36>> }

\* int(duration_minutes / (avg_track_minutes - blend_duration / 60)) + 1 in
\* double precision: the exact quotient (numerator and denominator scaled by
\* 60) truncated, one less where the double quotient falls short
arc_num_tracks(duration_minutes, blend_duration) ==
    TruncDiv(60 * duration_minutes, 60 * avg_track_minutes - blend_duration)
    - (IF <<duration_minutes, blend_duration>> \in quotient_rounds_below
       THEN 1 ELSE 0)
    + 1

preferred_labels ==
    <<"Lucidflow", "Echocord", "Styrax", "MCDE", "Ostgut Ton", "Moodmusic">>

create_journey_arc(duration_minutes, key_center, bpm_range, energy_progression, blend_duration) ==
    LET num_tracks == arc_num_tracks(duration_minutes, blend_duration)
    IN [duration_minutes |-> duration_minutes,
        key_center |-> key_center,
        bpm_range |-> bpm_range,
        energy_curve |-> generate_energy_curve(num_tracks, energy_progression),
        num_tracks |-> num_tracks,
        preferred_labels |-> preferred_labels,
        blend_duration |-> blend_duration]

(***************************************************************************)
(* journey_planner.py: JourneyPlanner._score_track_compatibility           *)
(***************************************************************************)
\* the bonus only for a strict partial overlap: some textures of the
\* current track shared, not all of them
texture_variety_partial_overlap(cur, cand) ==
    LET overlap == Range(cur.textures) \cap Range(cand.textures)
    IN IF /\ overlap # {}
          /\ overlap # Range(cur.textures)
       THEN 10 ELSE 0

\* `len(overlap) < len(current.textures)` compares the number of shared
\* textures with the length of the current track's texture list
texture_variety(cur, cand) ==
    LET overlap == Range(cur.textures) \cap Range(cand.textures)
    IN IF /\ cur.textures # <<>>
          /\ cand.textures # <<>>
          /\ Cardinality(overlap) < Len(cur.textures)
       THEN 10 ELSE 0

\* the score without `max(0, score)`
score_track_compatibility_no_floor(lib, current, candidate, target_energy) ==
    LET cur == lib[current]
        cand == lib[candidate]
        energy_diff == Abs(cand.energy_level - target_energy)
        energy_term == IF energy_diff = 0 THEN 20 ELSE 0 - energy_diff * 5
        bpm_diff == Abs(cur.bpm - cand.bpm)
        bpm_term == IF bpm_diff < 2 THEN 15
                    ELSE IF bpm_diff < 4 THEN 10
                    ELSE IF bpm_diff < 6 THEN 5
                    ELSE 0
        key_term == IF /\ cur.key # NoKey
                       /\ cand.key # NoKey
                       /\ are_keys_compatible(cur.key, cand.key)
                    THEN 25 ELSE 0
        texture_term == texture_variety(cur, cand)
        artist_term == IF cur.artist = cand.artist THEN 0 - 15 ELSE 0
    IN 50 + energy_term + bpm_term + key_term + texture_term + artist_term

score_track_compatibility(lib, current, candidate, target_energy) ==
    LET cur == lib[current]
        cand == lib[candidate]
        energy_diff == Abs(cand.energy_level - target_energy)
        energy_term == IF energy_diff = 0 THEN 20 ELSE 0 - energy_diff * 5
        bpm_diff == Abs(cur.bpm - cand.bpm)
        bpm_term == IF bpm_diff < 2 THEN 15
                    ELSE IF bpm_diff < 4 THEN 10
                    ELSE IF bpm_diff < 6 THEN 5
                    ELSE 0
        key_term == IF /\ cur.key # NoKey
                       /\ cand.key # NoKey
                       /\ are_keys_compatible(cur.key, cand.key)
                    THEN 25 ELSE 0
        texture_term == texture_variety(cur, cand)
        artist_term == IF cur.artist = cand.artist THEN 0 - 15 ELSE 0
    IN Max(0, 50 + energy_term + bpm_term + key_term + texture_term + artist_term)

(***************************************************************************)
(* journey_planner.py: JourneyPlanner._create_transition                   *)
(***************************************************************************)
\* `if track_a.outro_start:` is false for None and for 0
transition_start_time_a(a, blend_duration) ==
    IF a.outro_start # NoTime /\ a.outro_start # 0
    THEN a.outro_start
    ELSE Max(0, a.duration - blend_duration)

\* track_b.intro_start if track_b.intro_start else 0.0
transition_start_time_b(b) ==
    IF b.intro_start # NoTime /\ b.intro_start # 0 THEN b.intro_start ELSE 0

\* the 1:2 band is accepted as well
transition_bpm_compatible_three_bands(a, b) ==
    \/ 94 * b.bpm <= 100 * a.bpm /\ 100 * a.bpm <= 106 * b.bpm
    \/ 188 * b.bpm <= 100 * a.bpm /\ 100 * a.bpm <= 212 * b.bpm
    \/ 47 * b.bpm <= 100 * a.bpm /\ 100 * a.bpm <= 53 * b.bpm

\* bpm_ratio = a.bpm / b.bpm; 0.94 <= bpm_ratio <= 1.06 or 1.88 <= bpm_ratio <= 2.12
transition_bpm_compatible(a, b) ==
    \/ 94 * b.bpm <= 100 * a.bpm /\ 100 * a.bpm <= 106 * b.bpm
    \/ 188 * b.bpm <= 100 * a.bpm /\ 100 * a.bpm <= 212 * b.bpm

transition_key_compatible(a, b) ==
    IF a.key # NoKey /\ b.key # NoKey
    THEN are_keys_compatible(a.key, b.key)
    ELSE TRUE

transition_energy_compatible(a, b) ==
    Abs(a.energy_level - b.energy_level) <= 2

transition_texture_compatible(a, b) ==
    IF a.textures # <<>> /\ b.textures # <<>>
    THEN Range(a.textures) \cap Range(b.textures) # {}
    ELSE TRUE

\* the transition built with the dataclass's blend of 60 instead of the arc's
create_transition_default_blend(lib, track_a, track_b, blend_duration) ==
    [track_a |-> track_a,
     track_b |-> track_b,
     start_time_a |-> transition_start_time_a(lib[track_a], 60),
     start_time_b |-> transition_start_time_b(lib[track_b]),
     blend_duration |-> 60,
     bpm_compatible |-> transition_bpm_compatible(lib[track_a], lib[track_b]),
     key_compatible |-> transition_key_compatible(lib[track_a], lib[track_b]),
     energy_compatible |-> transition_energy_compatible(lib[track_a], lib[track_b]),
     texture_compatible |-> transition_texture_compatible(lib[track_a], lib[track_b])]

create_transition(lib, track_a, track_b, blend_duration) ==
    [track_a |-> track_a,
     track_b |-> track_b,
     start_time_a |-> transition_start_time_a(lib[track_a], blend_duration),
     start_time_b |-> transition_start_time_b(lib[track_b]),
     blend_duration |-> blend_duration,
     bpm_compatible |-> transition_bpm_compatible(lib[track_a], lib[track_b]),
     key_compatible |-> transition_key_compatible(lib[track_a], lib[track_b]),
     energy_compatible |-> transition_energy_compatible(lib[track_a], lib[track_b]),
     texture_compatible |-> transition_texture_compatible(lib[track_a], lib[track_b])]

(***************************************************************************)
(* journey_planner.py: JourneyPlanner._select_opener                       *)
(***************************************************************************)
label_matches(lib, journey_arc, candidates) ==
    SelectSeq(candidates,
              LAMBDA j : /\ lib[j].label # None
                         /\ \E k \in 1..Len(journey_arc.preferred_labels) :
                               IsSubstring(journey_arc.preferred_labels[k], lib[j].label))

\* target_energy = journey_arc.energy_curve[0] if journey_arc.energy_curve else 2
opener_target_energy(journey_arc) ==
    IF journey_arc.energy_curve # <<>> THEN journey_arc.energy_curve[1] ELSE 2

\* the opener's energy filter is left out
opener_filtered_any_energy(lib, journey_arc) ==
    find_tracks_by_bpm_range(lib, journey_arc.bpm_range[1], journey_arc.bpm_range[2])

\* the tempo-range query followed by the energy filter
opener_filtered(lib, journey_arc) ==
    SelectSeq(find_tracks_by_bpm_range(lib, journey_arc.bpm_range[1], journey_arc.bpm_range[2]),
              LAMBDA j : Abs(lib[j].energy_level - opener_target_energy(journey_arc)) <= 1)

\* `if strict_key and journey_arc.key_center:` replaces the candidates
\* unconditionally
opener_key_filtered(lib, journey_arc, strict_key, candidates) ==
    IF strict_key /\ journey_arc.key_center # NoKey
    THEN SelectSeq(candidates,
                   LAMBDA j : /\ lib[j].key # NoKey
                              /\ are_keys_compatible(lib[j].key, journey_arc.key_center))
    ELSE candidates

\* the opener-tag preference applied as a filter, without the `if openers:`
opener_prefer_openers_no_fallback(lib, candidates) ==
    SelectSeq(candidates, LAMBDA j : lib[j].journey_position = "opener")

opener_prefer_openers(lib, candidates) ==
    LET openers == SelectSeq(candidates, LAMBDA j : lib[j].journey_position = "opener")
    IN IF openers # <<>> THEN openers ELSE candidates

opener_prefer_atmospheric(lib, candidates) ==
    LET atmospheric ==
            SelectSeq(candidates,
                      LAMBDA j : \/ "atmospheric" \in Range(lib[j].textures)
                                 \/ "minimal" \in Range(lib[j].textures))
    IN IF atmospheric # <<>> THEN atmospheric ELSE candidates

prefer_label_matches(lib, journey_arc, prefer_labels, candidates) ==
    IF prefer_labels /\ journey_arc.preferred_labels # <<>>
    THEN LET matches == label_matches(lib, journey_arc, candidates)
         IN IF matches # <<>> THEN matches ELSE candidates
    ELSE candidates

\* the texture preference is applied before the opener-tag preference
select_opener_textures_first(lib, journey_arc, strict_key, prefer_labels) ==
    prefer_label_matches(lib, journey_arc, prefer_labels,
        opener_prefer_openers(lib,
            opener_prefer_atmospheric(lib,
                opener_key_filtered(lib, journey_arc, strict_key,
                    opener_filtered(lib, journey_arc)))))

\* the list random.choice draws the opener from; empty: the method returns None
select_opener(lib, journey_arc, strict_key, prefer_labels) ==
    prefer_label_matches(lib, journey_arc, prefer_labels,
        opener_prefer_atmospheric(lib,
            opener_prefer_openers(lib,
                opener_key_filtered(lib, journey_arc, strict_key,
                    opener_filtered(lib, journey_arc)))))

(***************************************************************************)
(* journey_planner.py: JourneyPlanner._select_next_track                   *)
(***************************************************************************)
\* the already-used tracks are not removed
remove_already_used_skipped(lib, candidates, already_used) == candidates

\* [t for t in candidates if t.file_path not in already_used]
remove_already_used(lib, candidates, already_used) ==
    SelectSeq(candidates, LAMBDA j : lib[j].file_path \notin Range(already_used))

\* the energy filter with a tolerance of two levels instead of one
energy_filter_two_levels(lib, candidates, target_energy) ==
    SelectSeq(candidates, LAMBDA j : Abs(lib[j].energy_level - target_energy) <= 2)

energy_filter(lib, candidates, target_energy) ==
    SelectSeq(candidates, LAMBDA j : Abs(lib[j].energy_level - target_energy) <= 1)

\* the arc's tempo range is not applied to successors
bpm_range_filter_skipped(lib, journey_arc, candidates) == candidates

bpm_range_filter(lib, journey_arc, candidates) ==
    SelectSeq(candidates,
              LAMBDA j : /\ journey_arc.bpm_range[1] <= lib[j].bpm
                         /\ lib[j].bpm <= journey_arc.bpm_range[2])

\* the candidates tested by `if not candidates: return None`
next_filtered(lib, current_track, target_energy, journey_arc, strict_key, already_used) ==
    bpm_range_filter(lib, journey_arc,
        energy_filter(lib,
            remove_already_used(lib,
                get_compatible_tracks(lib, current_track, 6, strict_key),
                already_used),
            target_energy))

\* the candidates are not narrowed to the key-compatible ones
next_prefer_key_skipped(lib, current_track, candidates) == candidates

next_prefer_key(lib, current_track, candidates) ==
    IF lib[current_track].key # NoKey
    THEN LET key_compatible ==
                 SelectSeq(candidates,
                           LAMBDA j : /\ lib[j].key # NoKey
                                      /\ are_keys_compatible(lib[current_track].key, lib[j].key))
         IN IF key_compatible # <<>> THEN key_compatible ELSE candidates
    ELSE candidates

\* scored_candidates: the (track, score) pairs in candidate order
\* c ranges over the one value of `candidates`
score_candidates(lib, current_track, target_energy, candidates) ==
    CHOOSE scored \in
        { [k \in 1..Len(c) |->
              <<c[k], score_track_compatibility(lib, current_track, c[k], target_energy)>>] :
              c \in {candidates} } : TRUE

\* list.sort(key=lambda x: x[1], reverse=True): stable, highest score first
\* the scored candidates are left in the order they were scored in
sort_by_score_skipped(scored) == scored

\* the place of entry k in the sorted list: behind every entry of a higher
\* score and behind the earlier entries of its own score
score_rank(s, k) ==
    Cardinality({ m \in 1..Len(s) : s[m][2] > s[k][2] })
    + Cardinality({ m \in 1..(k - 1) : s[m][2] = s[k][2] })
    + 1

\* s ranges over the one value of `scored`, which is so evaluated once
sort_by_score(scored) ==
    CHOOSE sorted \in
        { [p \in 1..Len(s) |-> s[CHOOSE k \in 1..Len(s) : score_rank(s, k) = p]] :
              s \in {scored} } : TRUE

\* the tracks the method can return: the top candidate, or any of the top
\* three (random.choice) when more than three remain
top_candidates(sorted) ==
    IF Len(sorted) <= 3 THEN {sorted[1][1]}
    ELSE {sorted[k][1] : k \in 1..3}

\* scored_candidates after the sort; empty when no candidate passes the
\* filters
scored_candidates(lib, current_track, target_energy, journey_arc, strict_key, prefer_labels, already_used) ==
    LET candidates == next_filtered(lib, current_track, target_energy,
                                    journey_arc, strict_key, already_used)
    IN IF candidates = <<>> THEN <<>>
       ELSE sort_by_score(
                score_candidates(lib, current_track, target_energy,
                    prefer_label_matches(lib, journey_arc, prefer_labels,
                        next_prefer_key(lib, current_track, candidates))))

\* the set of tracks _select_next_track can return; empty: it returns None
select_next_track(lib, current_track, target_energy, journey_arc, strict_key, prefer_labels, already_used) ==
    UNION { IF sorted = <<>> THEN {} ELSE top_candidates(sorted) :
               sorted \in { scored_candidates(lib, current_track, target_energy,
                                               journey_arc, strict_key,
                                               prefer_labels, already_used) } }

(***************************************************************************)
(* models.py: Playlist.calculate_duration                                  *)
(***************************************************************************)
RECURSIVE SumBlends(_, _)
SumBlends(lib, trs) ==
    IF trs = <<>> THEN 0
    ELSE (lib[Head(trs).track_b].duration - Head(trs).blend_duration)
         + SumBlends(lib, Tail(trs))

calculate_duration(lib, playlist_tracks, playlist_transitions) ==
    IF playlist_tracks = <<>> THEN 0
    ELSE lib[playlist_tracks[1]].duration + SumBlends(lib, playlist_transitions)

(***************************************************************************)
(* State.  tracks, tracks_by_key, tracks_by_bpm: the TrackLibrary.         *)
(* journey_arc: the arc returned by create_journey_arc.  strict_key,       *)
(* prefer_labels, selected_tracks, transitions, current_track, i: the      *)
(* arguments and locals of a generate_playlist call; pc is its position;   *)
(* playlist is the Playlist it returns.  call: a call of a pure function   *)
(* of the library with its arguments and result.                           *)
(***************************************************************************)
VARIABLES tracks, tracks_by_key, tracks_by_bpm, journey_arc, strict_key,
          prefer_labels, pc, selected_tracks, transitions, current_track, i,
          playlist, call, threads, dj

vars == <<tracks, tracks_by_key, tracks_by_bpm, journey_arc, strict_key,
          prefer_labels, pc, selected_tracks, transitions, current_track, i,
          playlist, call, threads, dj>>

library_vars == <<tracks, tracks_by_key, tracks_by_bpm>>

planner_vars == <<journey_arc, strict_key, prefer_labels, pc, selected_tracks,
                  transitions, current_track, i, playlist>>

\* the inputs of create_journey_arc and generate_playlist
DurationSet == {0 - 12, 0, 5, 12}

KeyCenterSet == {NoKey, Camelot(8, "A")}

BpmRangeSet == {<<118, 124>>, <<60, 240>>}

ProgressionSet == {"gradual_build", "peak_and_descent", "steady", "other"}

BlendDurationSet == {30, 60}

\* models.py: the defaults of the JourneyArc fields (no arc created yet)
NoArc ==
    [duration_minutes |-> 0, key_center |-> NoKey, bpm_range |-> <<118, 124>>,
     energy_curve |-> <<>>, num_tracks |-> 0, preferred_labels |-> <<>>,
     blend_duration |-> 60]

NoPlaylist == [tracks |-> <<>>, transitions |-> <<>>, total_duration |-> 0]

NoCall == [fn |-> "none"]

\* a dict entry d.setdefault(k, []).append(v), as add_track spells it out
DictAppend(d, k, v) ==
    IF k \in DOMAIN d THEN [d EXCEPT ![k] = Append(@, v)]
    ELSE [x \in (DOMAIN d) \cup {k} |-> IF x = k THEN <<v>> ELSE d[x]]

EmptyDict == [x \in {} |-> <<>>]

PlannerInit ==
    /\ journey_arc = NoArc
    /\ strict_key = FALSE
    /\ prefer_labels = TRUE
    /\ pc = "library"
    /\ selected_tracks = <<>>
    /\ transitions = <<>>
    /\ current_track = 0
    /\ i = 0
    /\ playlist = NoPlaylist

\* TrackLibrary.__init__ without a library file
LibraryInit ==
    /\ tracks = <<>>
    /\ tracks_by_key = EmptyDict
    /\ tracks_by_bpm = EmptyDict

\* no TraktorAIDJ object has been constructed
NoDJ == [state |-> "none"]

\* no generate_playlist call is running beside the one of the planner
\* variables
NoThreads == <<>>

Init ==
    /\ LibraryInit
    /\ PlannerInit
    /\ call = NoCall
    /\ threads = NoThreads
    /\ dj = NoDJ

(***************************************************************************)
(* library.py: TrackLibrary.add_track                                      *)
(***************************************************************************)
add_track(track) ==
    /\ pc = "library"
    /\ Len(tracks) < MaxLib
    /\ tracks' = Append(tracks, track)
    /\ tracks_by_key' = IF track.key # NoKey
                        THEN DictAppend(tracks_by_key, track.key, Len(tracks) + 1)
                        ELSE tracks_by_key
    /\ tracks_by_bpm' = IF track.bpm = NaN
                        THEN tracks_by_bpm   \* int(track.bpm) has raised
                        ELSE DictAppend(tracks_by_bpm, track.bpm, Len(tracks) + 1)
    /\ UNCHANGED <<planner_vars, call, threads, dj>>

AddTrack == \E track \in Catalogue : add_track(track)

(***************************************************************************)
(* cli.py: generate_playlist builds the arc, then plans with it            *)
(***************************************************************************)
CreateJourneyArc ==
    /\ pc = "library"
    /\ \E duration_minutes \in DurationSet, key_center \in KeyCenterSet,
          bpm_range \in BpmRangeSet, energy_progression \in ProgressionSet,
          blend_duration \in BlendDurationSet :
          journey_arc' = create_journey_arc(duration_minutes, key_center, bpm_range,
                                            energy_progression, blend_duration)
    /\ pc' = "arc"
    /\ UNCHANGED <<library_vars, strict_key, prefer_labels, selected_tracks,
                   transitions, current_track, i, playlist, call, threads, dj>>

(***************************************************************************)
(* journey_planner.py: JourneyPlanner.generate_playlist, from its entry to *)
(* the start of the loop: the opener is drawn, or ValueError is raised     *)
(***************************************************************************)
\* range(1, num_tracks + 1): one pass too many
loop_continues_one_more(next_i, journey_arc_) == next_i <= journey_arc_.num_tracks

\* for i in range(1, journey_arc.num_tracks): the loop has another pass
loop_continues(next_i, journey_arc_) == next_i < journey_arc_.num_tracks

GeneratePlaylist ==
    /\ pc = "arc"
    /\ \E sk \in BOOLEAN, pl \in BOOLEAN :
          LET candidates == select_opener(tracks, journey_arc, sk, pl)
          IN /\ strict_key' = sk
             /\ prefer_labels' = pl
             /\ IF candidates = <<>>
                THEN /\ pc' = "raised"
                     /\ UNCHANGED <<selected_tracks, current_track, i>>
                ELSE \E k \in 1..Len(candidates) :
                        /\ selected_tracks' = <<candidates[k]>>
                        /\ current_track' = candidates[k]
                        /\ i' = 1
                        /\ pc' = IF loop_continues(1, journey_arc)
                                 THEN "selecting" ELSE "finalize"
    /\ UNCHANGED <<library_vars, journey_arc, transitions, playlist, call,
                   threads, dj>>

\* the fallback of the opener (2) used for the successors as well
target_energy_at_opener_default(journey_arc_, idx) ==
    IF idx < Len(journey_arc_.energy_curve)
    THEN journey_arc_.energy_curve[idx + 1] ELSE 2

\* journey_arc.energy_curve[i] if i < len(journey_arc.energy_curve) else 5
target_energy_at(journey_arc_, idx) ==
    IF idx < Len(journey_arc_.energy_curve)
    THEN journey_arc_.energy_curve[idx + 1] ELSE 5

\* [t.file_path for t in selected_tracks]
file_paths(lib, selected) == [k \in 1..Len(selected) |-> lib[selected[k]].file_path]

(***************************************************************************)
(* generate_playlist: one pass of `for i in range(1, num_tracks)`          *)
(***************************************************************************)
SelectNextTrack ==
    /\ pc = "selecting"
    /\ \E next_tracks \in { select_next_track(tracks, current_track,
                              target_energy_at(journey_arc, i), journey_arc,
                              strict_key, prefer_labels,
                              file_paths(tracks, selected_tracks)) } :
          IF next_tracks = {}
          THEN /\ pc' = "finalize"
               /\ UNCHANGED <<selected_tracks, transitions, current_track, i>>
          ELSE \E next_track \in next_tracks :
                  /\ transitions' = Append(transitions,
                         create_transition(tracks, current_track, next_track,
                                           journey_arc.blend_duration))
                  /\ selected_tracks' = Append(selected_tracks, next_track)
                  /\ current_track' = next_track
                  /\ i' = i + 1
                  /\ pc' = IF loop_continues(i + 1, journey_arc)
                           THEN "selecting" ELSE "finalize"
    /\ UNCHANGED <<library_vars, journey_arc, strict_key, prefer_labels,
                   playlist, call, threads, dj>>

(***************************************************************************)
(* generate_playlist: the Playlist is built and returned                   *)
(***************************************************************************)
ReturnPlaylist ==
    /\ pc = "finalize"
    /\ playlist' = [tracks |-> selected_tracks,
                    transitions |-> transitions,
                    total_duration |->
                        calculate_duration(tracks, selected_tracks, transitions)]
    /\ pc' = "returned"
    /\ UNCHANGED <<library_vars, journey_arc, strict_key, prefer_labels,
                   selected_tracks, transitions, current_track, i, call,
                   threads, dj>>

Next ==
    \/ AddTrack
    \/ CreateJourneyArc
    \/ GeneratePlaylist
    \/ SelectNextTrack
    \/ ReturnPlaylist

Spec == Init /\ [][Next]_vars

(***************************************************************************)
(* are_keys_compatible on every pair of keys                               *)
(***************************************************************************)
KeysInit ==
    /\ LibraryInit
    /\ PlannerInit
    /\ threads = NoThreads
    /\ dj = NoDJ
    /\ call \in { [fn |-> "pending", key1 |-> k1, key2 |-> k2] :
                     k1 \in MusicalKey, k2 \in MusicalKey }

CallAreKeysCompatible ==
    /\ call.fn = "pending"
    /\ call' = [fn |-> "are_keys_compatible",
                key1 |-> call.key1, key2 |-> call.key2,
                result |-> are_keys_compatible(call.key1, call.key2)]
    /\ UNCHANGED <<library_vars, planner_vars, threads, dj>>

KeysSpec == KeysInit /\ [][CallAreKeysCompatible]_vars

\* the position and the letter of a key, read off the enumeration
CamelotNumber(key) ==
    CHOOSE n \in 1..12 : \E l \in {"A", "B"} : key = Camelot(n, l)

CamelotLetter(key) ==
    CHOOSE l \in {"A", "B"} : \E n \in 1..12 : key = Camelot(n, l)

\* C7: are_keys_compatible yields a boolean for each of the 24 x 24 pairs of
\* keys, true exactly when the keys are identical, or share the number and
\* differ in the letter, or share the letter with numbers 1 or 11 apart; it
\* is reflexive and symmetric; 8A/8B, 8A/9A and 12A/1A are compatible and
\* 8A/3A is not.
C7_KeysCompatible ==
    /\ Cardinality(MusicalKey) = 24
    /\ call.fn = "are_keys_compatible" =>
          LET n1 == CamelotNumber(call.key1)
              l1 == CamelotLetter(call.key1)
              n2 == CamelotNumber(call.key2)
              l2 == CamelotLetter(call.key2)
          IN /\ call.result \in BOOLEAN
             /\ call.result = (\/ call.key1 = call.key2
                               \/ n1 = n2 /\ l1 # l2
                               \/ l1 = l2 /\ (Abs(n1 - n2) = 1 \/ Abs(n1 - n2) = 11))
             /\ call.key1 = call.key2 => call.result
             /\ call.result = are_keys_compatible(call.key2, call.key1)
             /\ n1 = 8 /\ l1 = "A" /\ n2 = 8 /\ l2 = "B" => call.result
             /\ n1 = 8 /\ l1 = "A" /\ n2 = 9 /\ l2 = "A" => call.result
             /\ n1 = 12 /\ l1 = "A" /\ n2 = 1 /\ l2 = "A" => call.result
             /\ n1 = 8 /\ l1 = "A" /\ n2 = 3 /\ l2 = "A" => ~call.result

\* the wrap-around pair 12A/1A has been judged compatible
C7_Witness ==
    /\ call.fn = "are_keys_compatible"
    /\ call.key1 = Camelot(12, "A")
    /\ call.key2 = Camelot(1, "A")
    /\ call.result = TRUE

(***************************************************************************)
(* The band tests of get_compatible_tracks on a ratio t1 / t2 and on the   *)
(* inverted ratio t2 / t1                                                  *)
(***************************************************************************)
TempoSet == {20, 45, 60, 100, 118, 120, 124, 128, 205, 240}

ToleranceSet == {0, 6, 50, 100, 190}

TempoInit ==
    /\ LibraryInit
    /\ PlannerInit
    /\ threads = NoThreads
    /\ dj = NoDJ
    /\ call \in { [fn |-> "pending", t1 |-> a, t2 |-> b, tol |-> p] :
                     a \in TempoSet, b \in TempoSet, p \in ToleranceSet }

CallBandTests ==
    /\ call.fn = "pending"
    /\ call' = [fn |-> "band_tests", t1 |-> call.t1, t2 |-> call.t2,
                tol |-> call.tol,
                ratio_2_1 |-> band_2_1(call.t1, call.t2, call.tol),
                inverted_1_2 |-> band_1_2(call.t2, call.t1, call.tol)]
    /\ UNCHANGED <<library_vars, planner_vars, threads, dj>>

TempoSpec == TempoInit /\ [][CallBandTests]_vars

\* C8 as claimed: at any tolerance, t1/t2 matches the 2:1 band if and only
\* if t2/t1 matches the 1:2 band.
C8_Original ==
    call.fn = "band_tests" => (call.ratio_2_1 <=> call.inverted_1_2)

\* C8 as amended: at a tolerance of at most 100 percent, if t1/t2 matches the
\* 2:1 band then t2/t1 matches the 1:2 band (the converse does not hold).
C8_BandInversion ==
    call.fn = "band_tests" /\ call.tol <= 100 =>
        (call.ratio_2_1 => call.inverted_1_2)

\* a ratio off the band's centre (2.05) matched the 2:1 band, and its
\* inversion matched the 1:2 band
C8_Witness ==
    /\ call.fn = "band_tests"
    /\ call.tol = 6
    /\ call.t1 # 2 * call.t2
    /\ call.ratio_2_1
    /\ call.inverted_1_2

(***************************************************************************)
(* Properties of generate_playlist and of the library queries              *)
(***************************************************************************)
\* lo/100 <= t / r <= hi/100
RatioBetween(t, r, lo, hi) == lo * r <= 100 * t /\ 100 * t <= hi * r

\* t / r within tol percent of 1:1, 2:1 or 1:2
RatioInBands(t, r, tol) ==
    \/ RatioBetween(t, r, 100 - tol, 100 + tol)
    \/ RatioBetween(t, r, 200 - tol, 200 + tol)
    \/ RatioBetween(t, r, 50 - tol, 50 + tol)

InArcRange(track) ==
    /\ journey_arc.bpm_range[1] <= track.bpm
    /\ track.bpm <= journey_arc.bpm_range[2]

SelectedPaths == { tracks[selected_tracks[k]].file_path : k \in 1..Len(selected_tracks) }

\* C1: in a returned playlist every track has its tempo in the arc's range
\* and its energy within 1 of the curve entry of its position, and every
\* track after the opener has a tempo ratio to its predecessor within 6% of
\* 1:1, 2:1 or 1:2.  An arc with num_tracks >= 1 has a curve entry for every
\* position of the playlist.
C1_PlaylistWithinFilters ==
    pc = "returned" =>
        /\ journey_arc.num_tracks >= 1 =>
              Len(playlist.tracks) <= Len(journey_arc.energy_curve)
        /\ \A k \in 1..Len(playlist.tracks) :
              LET track == tracks[playlist.tracks[k]]
              IN /\ InArcRange(track)
                 /\ k <= Len(journey_arc.energy_curve) =>
                       Abs(track.energy_level - journey_arc.energy_curve[k]) <= 1
                 /\ k >= 2 =>
                       RatioInBands(track.bpm, tracks[playlist.tracks[k - 1]].bpm, 6)

\* a three-track playlist with a double-tempo step has been returned
C1_Witness ==
    /\ pc = "returned"
    /\ Len(playlist.tracks) = 3
    /\ \E k \in 2..3 :
          tracks[playlist.tracks[k]].bpm = 2 * tracks[playlist.tracks[k - 1]].bpm

\* C2: the selected tracks have pairwise distinct file paths.
C2_NoTrackTwice ==
    \A a \in 1..Len(selected_tracks), b \in 1..Len(selected_tracks) :
        a # b => tracks[selected_tracks[a]].file_path # tracks[selected_tracks[b]].file_path

\* the successor filters other than the already-used test, for library entry j
\* at the pass the planner is in
PassesTempoEnergyRange(j) ==
    /\ RatioInBands(tracks[j].bpm, tracks[current_track].bpm, 6)
    /\ Abs(tracks[j].energy_level - target_energy_at(journey_arc, i)) <= 1
    /\ InArcRange(tracks[j])

\* a playlist of two tracks was returned after a pass in which a second
\* library entry for an already selected file passed every other filter
C2_Witness ==
    /\ pc = "returned"
    /\ Len(selected_tracks) >= 2
    /\ i < journey_arc.num_tracks
    /\ \E j \in 1..Len(tracks) :
          /\ tracks[j].file_path \in SelectedPaths
          /\ \A k \in 1..Len(selected_tracks) : tracks[j] # tracks[selected_tracks[k]]
          /\ PassesTempoEnergyRange(j)

NoSuccessorPasses ==
    ~ \E j \in 1..Len(tracks) :
          /\ tracks[j].file_path \notin SelectedPaths
          /\ PassesTempoEnergyRange(j)

\* C3: when, with k tracks selected (1 <= k < num_tracks), no unused library
\* track passes the successor filters, the call raises nothing, keeps the k
\* tracks and their k - 1 transitions, and returns exactly them.
C3_TruncationKeepsTracks ==
    [][ /\ pc = "selecting" /\ NoSuccessorPasses =>
              /\ pc' = "finalize"
              /\ selected_tracks' = selected_tracks
              /\ transitions' = transitions
              /\ Len(selected_tracks) = i
              /\ Len(transitions) = i - 1
        /\ pc = "finalize" =>
              /\ pc' = "returned"
              /\ playlist'.tracks = selected_tracks
              /\ playlist'.transitions = transitions
              /\ Len(playlist'.transitions) = Len(selected_tracks) - 1 ]_vars

\* a playlist of at least two tracks, shorter than num_tracks, has been
\* returned after a pass in which no unused track passed the filters
C3_Witness ==
    /\ pc = "returned"
    /\ i < journey_arc.num_tracks
    /\ NoSuccessorPasses
    /\ Len(playlist.tracks) = i
    /\ Len(playlist.tracks) >= 2

\* library entry j passes the opener's mandatory filter
PassesOpenerFilter(j) ==
    /\ journey_arc.energy_curve # <<>>
    /\ InArcRange(tracks[j])
    /\ Abs(tracks[j].energy_level - journey_arc.energy_curve[1]) <= 1

\* generate_playlist has been called
Called == pc \notin {"library", "arc"}

\* C4: if no library track has its tempo in the arc's range and its energy
\* within 1 of energy_curve[0], generate_playlist raises ValueError and no
\* playlist, partial or otherwise, is returned.
C4_NoOpenerRaises ==
    /\ Called
    /\ journey_arc.energy_curve # <<>>
    /\ ~ \E j \in 1..Len(tracks) : PassesOpenerFilter(j)
    => /\ pc = "raised"
       /\ playlist = NoPlaylist
       /\ selected_tracks = <<>>

\* the call has raised on a library that holds tracks in the tempo range,
\* none of them with a fitting energy
C4_Witness ==
    /\ pc = "raised"
    /\ journey_arc.energy_curve # <<>>
    /\ \E j \in 1..Len(tracks) : InArcRange(tracks[j])
    /\ ~ \E j \in 1..Len(tracks) : PassesOpenerFilter(j)

\* C5 as claimed: if some library track passes the mandatory opener filter,
\* generate_playlist selects an opener and does not fail, whatever strict_key,
\* key_center and prefer_labels are.
C5_Original ==
    Called /\ (\E j \in 1..Len(tracks) : PassesOpenerFilter(j))
    => /\ pc # "raised"
       /\ selected_tracks # <<>>

\* library entry j passes the key-centre filter of a strict-key call
PassesKeyCentre(j) ==
    strict_key /\ journey_arc.key_center # NoKey =>
        /\ tracks[j].key # NoKey
        /\ are_keys_compatible(tracks[j].key, journey_arc.key_center)

\* C5 as amended: if some library track passes the mandatory opener filter
\* and, when strict_key is set with a key centre, the key-centre filter as
\* well, generate_playlist does not fail and its opener passes both; the
\* opener-tag, texture and label steps never empty the candidate set.
C5_OpenerFallbacks ==
    Called /\ (\E j \in 1..Len(tracks) : PassesOpenerFilter(j) /\ PassesKeyCentre(j))
    => /\ pc # "raised"
       /\ selected_tracks # <<>>
       /\ PassesOpenerFilter(selected_tracks[1])
       /\ PassesKeyCentre(selected_tracks[1])

\* a strict-key call with a key centre and label preference has selected an
\* opener that has neither the opener tag, nor an atmospheric or minimal
\* texture, nor a preferred label: all three preferences fell back
C5_Witness ==
    /\ Called
    /\ strict_key
    /\ journey_arc.key_center # NoKey
    /\ prefer_labels
    /\ selected_tracks # <<>>
    /\ LET opener == tracks[selected_tracks[1]]
       IN /\ opener.journey_position # "opener"
          /\ "atmospheric" \notin Range(opener.textures)
          /\ "minimal" \notin Range(opener.textures)
          /\ label_matches(tracks, journey_arc, <<selected_tracks[1]>>) = <<>>

\* C6: a returned playlist has len(tracks) - 1 transitions; transition k
\* joins tracks[k] to tracks[k + 1] and carries the arc's blend_duration.
C6_TransitionsJoinNeighbours ==
    pc = "returned" =>
        /\ Len(playlist.transitions) = Len(playlist.tracks) - 1
        /\ \A k \in 1..Len(playlist.transitions) :
              /\ playlist.transitions[k].track_a = playlist.tracks[k]
              /\ playlist.transitions[k].track_b = playlist.tracks[k + 1]
              /\ playlist.transitions[k].blend_duration = journey_arc.blend_duration

\* a playlist with two transitions of an arc with a 30 second blend
C6_Witness ==
    /\ pc = "returned"
    /\ Len(playlist.transitions) = 2
    /\ journey_arc.blend_duration = 30

\* the tolerances get_compatible_tracks is checked at
LibraryToleranceSet == {6, 10}

\* the library entries other than those in `excluded` whose tempo ratio to
\* the reference lies in a band, in library order
ExpectedCompatible(reference, tol, excluded) ==
    SelectSeq(Indices(tracks),
              LAMBDA j : /\ j \notin excluded
                         /\ RatioInBands(tracks[j].bpm, tracks[reference].bpm, tol))

\* at 6%, 120 and 240 BPM accept each other and 120 and 128 BPM reject each
\* other
PairsAtSixPercent(reference) ==
    \A j \in 1..Len(tracks) :
        LET bpms == {tracks[j].bpm, tracks[reference].bpm}
            returned == j \in Range(get_compatible_tracks(tracks, reference, 6, FALSE))
        IN /\ bpms = {120, 240} => returned
           /\ bpms = {120, 128} => ~returned

\* C9 as claimed: get_compatible_tracks(reference, p, False) returns exactly
\* the library tracks other than the reference object whose tempo ratio to
\* the reference is within p% of 1.0, 2.0 or 0.5.
C9_Original ==
    pc = "library" =>
        \A reference \in 1..Len(tracks), tol \in LibraryToleranceSet :
            /\ get_compatible_tracks(tracks, reference, tol, FALSE)
                  = ExpectedCompatible(reference, tol, {reference})
            /\ PairsAtSixPercent(reference)

\* C9 as amended: it returns exactly the library tracks not equal to the
\* reference field by field (so neither the reference nor an equal duplicate
\* entry) whose tempo ratio to the reference is within p% of 1.0, 2.0 or 0.5.
C9_CompatibleTracks ==
    pc = "library" =>
        \A reference \in 1..Len(tracks), tol \in LibraryToleranceSet :
            /\ get_compatible_tracks(tracks, reference, tol, FALSE)
                  = ExpectedCompatible(reference, tol,
                        { j \in 1..Len(tracks) : tracks[j] = tracks[reference] })
            /\ PairsAtSixPercent(reference)

\* a library with two equal entries and a third, compatible one: the query
\* on the first returns the third alone
C9_Witness ==
    /\ pc = "library"
    /\ Len(tracks) = 3
    /\ tracks[1] = tracks[2]
    /\ tracks[3] # tracks[1]
    /\ get_compatible_tracks(tracks, 1, 6, FALSE) = <<3>>

\* largest num_tracks the curve generator is evaluated at
MaxNumTracks == 12

\* C10: the curve has exactly num_tracks entries for every num_tracks >= 0
\* and every progression, and every arc built by create_journey_arc has
\* len(energy_curve) = num_tracks.
C10_CurveLength ==
    /\ \A n \in 0..MaxNumTracks, progression \in ProgressionSet :
          Len(generate_energy_curve(n, progression)) = n
    /\ pc # "library" => Len(journey_arc.energy_curve) = journey_arc.num_tracks

(***************************************************************************)
(* _generate_energy_curve on every length and progression                  *)
(***************************************************************************)
NumTracksSet == (0 - 2)..MaxNumTracks

CurveInit ==
    /\ LibraryInit
    /\ PlannerInit
    /\ threads = NoThreads
    /\ dj = NoDJ
    /\ call \in { [fn |-> "pending", num_tracks |-> n, progression |-> p] :
                     n \in NumTracksSet, p \in ProgressionSet }

CallGenerateEnergyCurve ==
    /\ call.fn = "pending"
    /\ call' = [fn |-> "_generate_energy_curve",
                num_tracks |-> call.num_tracks,
                progression |-> call.progression,
                result |-> generate_energy_curve(call.num_tracks, call.progression)]
    /\ UNCHANGED <<library_vars, planner_vars, threads, dj>>

CurveSpec == CurveInit /\ [][CallGenerateEnergyCurve]_vars

NamedProgressions == {"gradual_build", "peak_and_descent", "steady"}

\* C11: for gradual_build, peak_and_descent and steady and every
\* num_tracks >= 1, every entry of the generated energy curve lies in 1..10.
C11_CurveValuesInRange ==
    /\ call.fn = "_generate_energy_curve"
    /\ call.progression \in NamedProgressions
    /\ call.num_tracks >= 1
    => \A k \in 1..Len(call.result) : call.result[k] \in 1..10

\* a peak_and_descent curve of ten or more entries has been generated that
\* spans from its lowest start (2) to its peak (8)
C11_Witness ==
    /\ call.fn = "_generate_energy_curve"
    /\ call.progression = "peak_and_descent"
    /\ call.num_tracks >= 10
    /\ Len(call.result) = call.num_tracks
    /\ call.result[1] = 2
    /\ \E k \in 1..Len(call.result) : call.result[k] = 8

(***************************************************************************)
(* _score_track_compatibility on pairs of tracks and target energies       *)
(***************************************************************************)
\* the catalogue, one track at the lowest energy level and one track whose
\* texture list names a texture twice
ScoreTracks ==
    Catalogue \cup
    { TrackMetadata("g.wav", "Quantec", 90, NoKey, 300, 1, <<>>, None, None,
                    NoTime, NoTime),
      TrackMetadata("q.wav", "Substance", 122, NoKey, 300, 5, <<"dub", "dub">>,
                    None, None, NoTime, NoTime) }

EnergyLevels == 1..10

ScoreInit ==
    /\ LibraryInit
    /\ PlannerInit
    /\ threads = NoThreads
    /\ dj = NoDJ
    /\ call \in { [fn |-> "pending", current |-> cur, candidate |-> cand,
                   target_energy |-> e] :
                     cur \in ScoreTracks, cand \in ScoreTracks, e \in EnergyLevels }

CallScoreTrackCompatibility ==
    /\ call.fn = "pending"
    /\ call' = [fn |-> "_score_track_compatibility",
                current |-> call.current, candidate |-> call.candidate,
                target_energy |-> call.target_energy,
                result |-> score_track_compatibility(
                              <<call.current, call.candidate>>, 1, 2,
                              call.target_energy)]
    /\ UNCHANGED <<library_vars, planner_vars, threads, dj>>

ScoreSpec == ScoreInit /\ [][CallScoreTrackCompatibility]_vars

ArcDurationSet == {1, 5, 30, 66, 70, 73, 81, 90, 120}

ArcBlendSet == {0, 30, 36, 60, 68, 80, 96, 120, 300}

ArcInit ==
    /\ LibraryInit
    /\ PlannerInit
    /\ threads = NoThreads
    /\ dj = NoDJ
    /\ call \in { [fn |-> "pending", duration_minutes |-> d,
                   energy_progression |-> p, blend_duration |-> b] :
                     d \in ArcDurationSet, p \in ProgressionSet, b \in ArcBlendSet }

\* key_center and bpm_range keep their defaults
CallCreateJourneyArc ==
    /\ call.fn = "pending"
    /\ call' = [fn |-> "create_journey_arc",
                duration_minutes |-> call.duration_minutes,
                energy_progression |-> call.energy_progression,
                blend_duration |-> call.blend_duration,
                result |-> create_journey_arc(call.duration_minutes, NoKey,
                                              <<118, 124>>,
                                              call.energy_progression,
                                              call.blend_duration)]
    /\ UNCHANGED <<library_vars, planner_vars, threads, dj>>

ArcSpec == ArcInit /\ [][CallCreateJourneyArc]_vars

\* C13: for duration >= 1 and 0 <= blend < 360, num_tracks is
\* floor(duration / (6 - blend / 60)) + 1, that is, n with
\* (n - 1) * (360 - blend) <= 60 * duration < n * (360 - blend); a 30-minute
\* arc with a 60-second blend has 7 tracks and a 7-entry energy curve.
C13_NumTracksFormula ==
    call.fn = "create_journey_arc" =>
        LET n == call.result.num_tracks
            d == call.duration_minutes
            b == call.blend_duration
        IN /\ (n - 1) * (360 - b) <= 60 * d
           /\ 60 * d < n * (360 - b)
           /\ d = 30 /\ b = 60 =>
                 n = 7 /\ Len(call.result.energy_curve) = 7

(***************************************************************************)
(* Two generate_playlist calls running against one library.  Each call has *)
(* the local variables of generate_playlist to itself (threads[t]); the    *)
(* library is the planner's self.library, shared by both.  draws is the    *)
(* sequence of indices random.choice has returned to the call.             *)
(***************************************************************************)
Threads == {1, 2}

\* load: the indices are rebuilt from the first n tracks of the loaded list
RECURSIVE rebuild_by_key(_, _)
rebuild_by_key(lib, n) ==
    IF n = 0 THEN EmptyDict
    ELSE IF lib[n].key # NoKey
         THEN DictAppend(rebuild_by_key(lib, n - 1), lib[n].key, n)
         ELSE rebuild_by_key(lib, n - 1)

RECURSIVE rebuild_by_bpm(_, _)
rebuild_by_bpm(lib, n) ==
    IF n = 0 THEN EmptyDict
    ELSE DictAppend(rebuild_by_bpm(lib, n - 1), lib[n].bpm, n)

\* a library of six tracks within 118..124 BPM: after the opener four
\* candidates can remain for the second position
LibraryA ==
    << TrackMetadata("a.wav", "Fluxion", 120, Camelot(8, "A"), 360, 5,
                     <<"atmospheric", "dub">>, "opener", "Echocord Colour",
                     NoTime, 300),
       TrackMetadata("c.wav", "Deepchord", 124, NoKey, 420, 6,
                     <<"hypnotic">>, "core", "Lucidflow", 0, 390),
       TrackMetadata("h.wav", "Quantec", 122, Camelot(7, "A"), 300, 6,
                     <<"hypnotic">>, None, "Styrax", NoTime, NoTime),
       TrackMetadata("k.wav", "Monolake", 121, Camelot(8, "B"), 330, 5,
                     <<"dub">>, None, None, 12, 280),
       TrackMetadata("m.wav", "Deepchord", 119, Camelot(9, "A"), 350, 6,
                     <<"atmospheric", "minimal">>, None, "Kompakt", NoTime, 300),
       TrackMetadata("n.wav", "Substance", 123, Camelot(8, "A"), 310, 6,
                     <<"dub", "minimal">>, None, None, NoTime, NoTime) >>

\* a library without an opener-tagged or atmospheric track: the opener is
\* drawn among several candidates
LibraryB ==
    << TrackMetadata("a.wav", "Fluxion", 120, Camelot(8, "A"), 360, 6,
                     <<"dub">>, None, None, NoTime, NoTime),
       TrackMetadata("c.wav", "Deepchord", 124, NoKey, 420, 6,
                     <<"hypnotic">>, "core", "Lucidflow", 0, 390),
       TrackMetadata("b.wav", "Fluxion", 240, Camelot(3, "A"), 300, 5,
                     <<>>, None, "Kompakt", 16, 0),
       TrackMetadata("e.wav", "Quantec", 60, Camelot(8, "B"), 400, 3,
                     <<"minimal", "dub">>, None, None, 8, 340) >>

LoadedLibraries == {LibraryA, LibraryB}

\* the arcs the two calls are given
ThreadArcs ==
    { create_journey_arc(12, NoKey, <<118, 124>>, "steady", 60),
      create_journey_arc(12, NoKey, <<60, 240>>, "steady", 30) }

\* the locals of a generate_playlist call at its entry
thread_entry(journey_arc_, strict_key_, prefer_labels_) ==
    [pc |-> "arc", journey_arc |-> journey_arc_, strict_key |-> strict_key_,
     prefer_labels |-> prefer_labels_, selected_tracks |-> <<>>,
     transitions |-> <<>>, current_track |-> 0, i |-> 0,
     playlist |-> NoPlaylist, draws |-> <<>>]

ThreadInit ==
    /\ PlannerInit
    /\ call = NoCall
    /\ dj = NoDJ
    /\ tracks \in LoadedLibraries
    /\ tracks_by_key = rebuild_by_key(tracks, Len(tracks))
    /\ tracks_by_bpm = rebuild_by_bpm(tracks, Len(tracks))
    /\ threads \in [Threads -> { thread_entry(arc, sk, pl) :
                                    arc \in ThreadArcs, sk \in BOOLEAN,
                                    pl \in BOOLEAN }]

\* the current track of another call, when that call has one
thread_current_track_shared(ths, t) ==
    IF \E u \in Threads \ {t} : ths[u].current_track # 0
    THEN ths[CHOOSE u \in Threads \ {t} : ths[u].current_track # 0].current_track
    ELSE ths[t].current_track

\* current_track is a local of the call
thread_current_track(ths, t) == ths[t].current_track

\* the file paths selected by any call
thread_already_used_shared(lib, ths, t) ==
    file_paths(lib, ths[1].selected_tracks \o ths[2].selected_tracks)

\* already_used=[t.file_path for t in selected_tracks], a local of the call
thread_already_used(lib, ths, t) == file_paths(lib, ths[t].selected_tracks)

\* the opener is drawn, or ValueError is raised
ThreadGeneratePlaylist(t) ==
    LET th == threads[t]
        candidates == select_opener(tracks, th.journey_arc, th.strict_key,
                                    th.prefer_labels)
    IN /\ th.pc = "arc"
       /\ IF candidates = <<>>
          THEN threads' = [threads EXCEPT ![t].pc = "raised"]
          ELSE \E k \in 1..Len(candidates) :
                  threads' = [threads EXCEPT
                      ![t].selected_tracks = <<candidates[k]>>,
                      ![t].current_track = candidates[k],
                      ![t].i = 1,
                      ![t].draws = Append(@, k),
                      ![t].pc = IF loop_continues(1, th.journey_arc)
                                THEN "selecting" ELSE "finalize"]
       /\ UNCHANGED <<library_vars, planner_vars, call, dj>>

\* one pass of the loop; random.choice is called only when more than three
\* candidates were scored
ThreadSelectNextTrack(t) ==
    LET th == threads[t]
        current == thread_current_track(threads, t)
        sorted == scored_candidates(tracks, current,
                      target_energy_at(th.journey_arc, th.i), th.journey_arc,
                      th.strict_key, th.prefer_labels,
                      thread_already_used(tracks, threads, t))
        appended(next_track, new_draws) ==
            [threads EXCEPT
                ![t].transitions = Append(@,
                    create_transition(tracks, current, next_track,
                                      th.journey_arc.blend_duration)),
                ![t].selected_tracks = Append(@, next_track),
                ![t].current_track = next_track,
                ![t].i = th.i + 1,
                ![t].draws = new_draws,
                ![t].pc = IF loop_continues(th.i + 1, th.journey_arc)
                          THEN "selecting" ELSE "finalize"]
    IN /\ th.pc = "selecting"
       /\ IF sorted = <<>>
          THEN threads' = [threads EXCEPT ![t].pc = "finalize"]
          ELSE IF Len(sorted) <= 3
          THEN threads' = appended(sorted[1][1], th.draws)
          ELSE \E k \in 1..3 :
                  threads' = appended(sorted[k][1], Append(th.draws, k))
       /\ UNCHANGED <<library_vars, planner_vars, call, dj>>

ThreadReturnPlaylist(t) ==
    LET th == threads[t]
    IN /\ th.pc = "finalize"
       /\ threads' = [threads EXCEPT
              ![t].playlist = [tracks |-> th.selected_tracks,
                               transitions |-> th.transitions,
                               total_duration |->
                                   calculate_duration(tracks, th.selected_tracks,
                                                      th.transitions)],
              ![t].pc = "returned"]
       /\ UNCHANGED <<library_vars, planner_vars, call, dj>>

ThreadNext ==
    \E t \in Threads :
        \/ ThreadGeneratePlaylist(t)
        \/ ThreadSelectNextTrack(t)
        \/ ThreadReturnPlaylist(t)

ThreadSpec == ThreadInit /\ [][ThreadNext]_vars

\* what a call was given: its arc and its two flags
thread_inputs(th) == <<th.journey_arc, th.strict_key, th.prefer_labels>>

RECURSIVE playlists_from(_, _, _, _, _, _)
playlists_from(lib, journey_arc_, strict_key_, prefer_labels_, selected, trs) ==
    LET n == Len(selected)
        finished == { [tracks |-> selected, transitions |-> trs,
                       total_duration |-> calculate_duration(lib, selected, trs)] }
        next_tracks == select_next_track(lib, selected[n],
                           target_energy_at(journey_arc_, n), journey_arc_,
                           strict_key_, prefer_labels_, file_paths(lib, selected))
    IN IF ~loop_continues(n, journey_arc_) \/ next_tracks = {}
       THEN finished
       ELSE UNION { playlists_from(lib, journey_arc_, strict_key_, prefer_labels_,
                        Append(selected, next_track),
                        Append(trs, create_transition(lib, selected[n], next_track,
                                        journey_arc_.blend_duration))) :
                    next_track \in next_tracks }

\* every playlist generate_playlist can return when it runs alone; empty when
\* it raises
playlists_alone(lib, journey_arc_, strict_key_, prefer_labels_) ==
    UNION { playlists_from(lib, journey_arc_, strict_key_, prefer_labels_,
                           <<opener>>, <<>>) :
            opener \in Range(select_opener(lib, journey_arc_, strict_key_,
                                           prefer_labels_)) }

\* C15: in every interleaving of two generate_playlist calls on one library,
\* no step changes the track list or either index, a step of one call leaves
\* the other call's selected tracks alone, and a call returns a playlist
\* (or raises) only if it could have done so running alone.
C15_CallsDoNotInterfere ==
    /\ [][ /\ tracks' = tracks
           /\ tracks_by_key' = tracks_by_key
           /\ tracks_by_bpm' = tracks_by_bpm
           /\ \A t \in DOMAIN threads, u \in DOMAIN threads :
                 t # u /\ threads'[t] # threads[t] =>
                     threads'[u].selected_tracks = threads[u].selected_tracks ]_vars
    /\ [](\A t \in DOMAIN threads :
             LET th == threads[t]
                 alone == playlists_alone(tracks, th.journey_arc, th.strict_key,
                                          th.prefer_labels)
             IN /\ th.pc = "returned" => th.playlist \in alone
                /\ th.pc = "raised" => alone = {})

\* both calls have returned three tracks, in different orders or choices,
\* with a track of the library in both playlists
C15_Witness ==
    /\ threads # NoThreads
    /\ threads[1].pc = "returned"
    /\ threads[2].pc = "returned"
    /\ Len(threads[1].playlist.tracks) = 3
    /\ Len(threads[2].playlist.tracks) = 3
    /\ threads[1].playlist.tracks # threads[2].playlist.tracks
    /\ Range(threads[1].playlist.tracks) \cap Range(threads[2].playlist.tracks) # {}

\* C16: create_journey_arc rejects a non-positive duration: no arc exists
\* for one (the planner never gets past the library stage with it), and no
\* opener is ever selected for one.
C16_NonPositiveDurationRejected ==
    /\ pc # "library" => journey_arc.duration_minutes >= 1
    /\ selected_tracks # <<>> => journey_arc.duration_minutes >= 1

(***************************************************************************)
(* library.py: a TrackLibrary under add_track and load                     *)
(***************************************************************************)
\* the catalogue and a track as scan_directory adds it for a file whose BPM
\* tag reads "nan" (extract_metadata sets no key)
LibraryTracks ==
    Catalogue \cup
    { TrackMetadata("y.mp3", "Unknown", NaN, NoKey, 300, 5, <<>>, None, None,
                    NoTime, NoTime) }

\* largest number of tracks in a library file
MaxFile == 2

RECURSIVE SeqsUpTo(_, _)
SeqsUpTo(S, n) ==
    IF n = 0 THEN { <<>> }
    ELSE LET shorter == SeqsUpTo(S, n - 1)
         IN shorter \cup { Append(q, x) : q \in shorter, x \in S }

\* the position of the first track the rebuild loop fails on (int(track.bpm)
\* raises), or one past the list
first_failure(data) ==
    IF \E n \in 1..Len(data) : data[n].bpm = NaN
    THEN CHOOSE n \in 1..Len(data) :
            /\ data[n].bpm = NaN
            /\ \A m \in 1..(n - 1) : data[m].bpm # NaN
    ELSE Len(data) + 1

\* self.tracks is replaced, then the loop rebuilds both indices track by
\* track; where it raises, the failing track's key has been indexed and its
\* tempo has not
load(data) ==
    LET n == first_failure(data)
    IN /\ pc = "library"
       /\ tracks' = data
       /\ tracks_by_key' = rebuild_by_key(data, IF n <= Len(data) THEN n ELSE Len(data))
       /\ tracks_by_bpm' = rebuild_by_bpm(data, n - 1)
       /\ UNCHANGED <<planner_vars, call, threads, dj>>

Load == \E data \in SeqsUpTo(LibraryTracks, MaxFile) : load(data)

ScanOrAddTrack == \E track \in LibraryTracks : add_track(track)

LibraryNext == ScanOrAddTrack \/ Load

LibrarySpec == Init /\ [][LibraryNext]_vars

\* the positions of the tracks satisfying P, in list order
Subsequence(P(_)) == SelectSeq(Indices(tracks), P)

\* C17: after any sequence of add_track and load, tracks_by_key[k] is exactly
\* the subsequence of tracks with key k, tracks_by_bpm[b] exactly the
\* subsequence of tracks whose tempo has integer part b, every track is in
\* a tempo bucket and every index entry is a track of the list.
C17_IndexesAgree ==
    /\ \A k \in MusicalKey :
          LET with_key == Subsequence(LAMBDA j : tracks[j].key = k)
          IN IF with_key = <<>> THEN k \notin DOMAIN tracks_by_key
             ELSE k \in DOMAIN tracks_by_key /\ tracks_by_key[k] = with_key
    /\ \A b \in DOMAIN tracks_by_bpm :
          tracks_by_bpm[b] = Subsequence(LAMBDA j : tracks[j].bpm = b)
    /\ \A j \in 1..Len(tracks) :
          \E b \in DOMAIN tracks_by_bpm : j \in Range(tracks_by_bpm[b])
    /\ \A k \in DOMAIN tracks_by_key : Range(tracks_by_key[k]) \subseteq 1..Len(tracks)
    /\ \A b \in DOMAIN tracks_by_bpm : Range(tracks_by_bpm[b]) \subseteq 1..Len(tracks)

(***************************************************************************)
(* The successor choice, read back from the tracks a call has selected     *)
(***************************************************************************)
\* the candidates of _select_next_track after the filters and the key and
\* label narrowing, for position n + 1 of a call that has selected th.selected_tracks
narrowed_candidates(th, n) ==
    LET used == SubSeq(th.selected_tracks, 1, n)
        current == th.selected_tracks[n]
    IN prefer_label_matches(tracks, th.journey_arc, th.prefer_labels,
           next_prefer_key(tracks, current,
               next_filtered(tracks, current, target_energy_at(th.journey_arc, n),
                             th.journey_arc, th.strict_key,
                             file_paths(tracks, used))))

\* how many of the candidates score higher than `chosen`
ScoredHigher(th, n, chosen) ==
    LET score(j) == score_track_compatibility(tracks, th.selected_tracks[n], j,
                                              target_energy_at(th.journey_arc, n))
        candidates == narrowed_candidates(th, n)
    IN Cardinality({ k \in 1..Len(candidates) : score(candidates[k]) > score(chosen) })

\* the passes of a call in which random.choice drew among the top three
DrawingPasses(th) ==
    { n \in 1..(Len(th.selected_tracks) - 1) : Len(narrowed_candidates(th, n)) > 3 }

\* C18: every successor a call has chosen is one of the remaining
\* candidates and at most two of them score higher; when three or fewer
\* remained none scores higher and no random draw was made for the pass.
C18_TopThree ==
    \A t \in DOMAIN threads :
        LET th == threads[t]
        IN /\ \A n \in 1..(Len(th.selected_tracks) - 1) :
                 LET chosen == th.selected_tracks[n + 1]
                     candidates == narrowed_candidates(th, n)
                 IN /\ chosen \in Range(candidates)
                    /\ ScoredHigher(th, n, chosen) <= 2
                    /\ Len(candidates) <= 3 => ScoredHigher(th, n, chosen) = 0
           /\ th.selected_tracks # <<>> =>
                 Len(th.draws) = 1 + Cardinality(DrawingPasses(th))

\* a call has chosen, among four remaining candidates, the third of the top
\* three (one that another candidate outscores), and in the next pass the
\* best of at most three
C18_Witness ==
    \E t \in DOMAIN threads :
        LET th == threads[t]
        IN /\ Len(th.selected_tracks) = 3
           /\ Len(narrowed_candidates(th, 1)) = 4
           /\ th.draws[2] = 3
           /\ ScoredHigher(th, 1, th.selected_tracks[2]) >= 1
           /\ Len(narrowed_candidates(th, 2)) \in 2..3
           /\ ScoredHigher(th, 2, th.selected_tracks[3]) = 0

\* library track j passes the hard filters for position n + 1 of a call:
\* its file is unused, its tempo ratio to the current track is within 6% of
\* 1:1, 2:1 or 1:2, its energy is within 1 of the target, its tempo is in
\* the arc's range
PassesHardFilters(th, n, j) ==
    LET current == tracks[th.selected_tracks[n]]
    IN /\ \A m \in 1..n : tracks[th.selected_tracks[m]].file_path # tracks[j].file_path
       /\ RatioInBands(tracks[j].bpm, current.bpm, 6)
       /\ Abs(tracks[j].energy_level - target_energy_at(th.journey_arc, n)) <= 1
       /\ th.journey_arc.bpm_range[1] <= tracks[j].bpm
       /\ tracks[j].bpm <= th.journey_arc.bpm_range[2]

\* library track j has a key compatible with the key of the call's n-th track
KeyFits(th, n, j) ==
    /\ tracks[j].key # NoKey
    /\ are_keys_compatible(tracks[th.selected_tracks[n]].key, tracks[j].key)

\* C19: when the current track has a key and some candidate that passed the
\* hard filters has a key compatible with it, the chosen successor has a
\* compatible key, whatever the labels and the scores are.
C19_KeyPreferenceFirst ==
    \A t \in DOMAIN threads :
        LET th == threads[t]
        IN \A n \in 1..(Len(th.selected_tracks) - 1) :
              /\ tracks[th.selected_tracks[n]].key # NoKey
              /\ \E j \in 1..Len(tracks) : PassesHardFilters(th, n, j) /\ KeyFits(th, n, j)
              => KeyFits(th, n, th.selected_tracks[n + 1])

\* a call preferring labels has chosen a key-compatible successor although
\* a track of a preferred label without a compatible key passed the hard
\* filters
C19_Witness ==
    \E t \in DOMAIN threads :
        LET th == threads[t]
        IN /\ th.prefer_labels
           /\ Len(th.selected_tracks) >= 2
           /\ tracks[th.selected_tracks[1]].key # NoKey
           /\ KeyFits(th, 1, th.selected_tracks[2])
           /\ \E j \in 1..Len(tracks) :
                 /\ PassesHardFilters(th, 1, j)
                 /\ ~KeyFits(th, 1, j)
                 /\ label_matches(tracks, th.journey_arc, <<j>>) # <<>>

\* the library entries left after the opener's filters: tempo range, energy
\* and, for a strict-key call with a key centre, the key centre
PassedOpenerFilters ==
    { j \in 1..Len(tracks) : PassesOpenerFilter(j) /\ PassesKeyCentre(j) }

TaggedOpener(j) == tracks[j].journey_position = "opener"

AtmosphericOrMinimal(j) ==
    \/ "atmospheric" \in Range(tracks[j].textures)
    \/ "minimal" \in Range(tracks[j].textures)

\* the entries remaining after the opener-tag step
AfterOpenerTagStep ==
    IF \E j \in PassedOpenerFilters : TaggedOpener(j)
    THEN { j \in PassedOpenerFilters : TaggedOpener(j) }
    ELSE PassedOpenerFilters

ScoreBesidesTextures ==
    LET cur == call.current
        cand == call.candidate
        energy_diff == Abs(cand.energy_level - call.target_energy)
        bpm_diff == Abs(cur.bpm - cand.bpm)
    IN 50
       + (IF energy_diff = 0 THEN 20 ELSE 0 - 5 * energy_diff)
       + (IF bpm_diff < 2 THEN 15 ELSE IF bpm_diff < 4 THEN 10
          ELSE IF bpm_diff < 6 THEN 5 ELSE 0)
       + (IF cur.key # NoKey /\ cand.key # NoKey
             /\ are_keys_compatible(cur.key, cand.key) THEN 25 ELSE 0)
       - (IF cur.artist = cand.artist THEN 15 ELSE 0)

\* the textures the two tracks of a scorer call share
SharedTextures == Range(call.current.textures) \cap Range(call.candidate.textures)

\* C21 as claimed: the +10 texture bonus is added exactly when the candidate
\* shares at least one but not all of the current track's textures; sharing
\* none or all of them gives no bonus.
C21_Original ==
    call.fn = "_score_track_compatibility" =>
        call.result =
            Max(0, ScoreBesidesTextures
                   + (IF /\ SharedTextures # {}
                         /\ SharedTextures # Range(call.current.textures)
                      THEN 10 ELSE 0))

\* C21 as amended: the +10 texture bonus is added exactly when both tracks
\* have textures and the number of distinct shared textures is smaller than
\* the length of the current track's texture list; sharing none of them
\* gives the bonus.
C21_TextureBonus ==
    call.fn = "_score_track_compatibility" =>
        call.result =
            Max(0, ScoreBesidesTextures
                   + (IF /\ call.current.textures # <<>>
                         /\ call.candidate.textures # <<>>
                         /\ Cardinality(SharedTextures) < Len(call.current.textures)
                      THEN 10 ELSE 0))

\* a candidate with textures that shares none of the current track's
\* textures has been scored with the bonus
C21_Witness ==
    /\ call.fn = "_score_track_compatibility"
    /\ call.current.textures # <<>>
    /\ call.candidate.textures # <<>>
    /\ SharedTextures = {}
    /\ call.result = ScoreBesidesTextures + 10
    /\ call.result > 10

\* the reference curve: every ramp is the truncated linear interpolation
\* over the length of its own phase
ReferenceCurve(num_tracks, progression) ==
    IF progression = "gradual_build"
    THEN LET t == num_tracks \div 3
             m == num_tracks - 2 * t
         IN [k \in 1..num_tracks |->
                IF k <= t THEN 2 + ((k - 1) % 3)
                ELSE IF k <= 2 * t THEN 4 + ((3 * (k - t - 1)) \div t)
                ELSE Max(5, 7 - ((2 * (k - 2 * t - 1)) \div m))]
    ELSE IF progression = "peak_and_descent"
    THEN LET p == (65 * num_tracks) \div 100
         IN [k \in 1..num_tracks |->
                IF k <= p THEN 2 + ((6 * (k - 1)) \div p)
                ELSE Max(3, 8 - ((5 * (k - p - 1)) \div (num_tracks - p)))]
    ELSE IF progression = "steady"
    THEN [k \in 1..num_tracks |-> 5 + ((k - 1) % 2)]
    ELSE [k \in 1..num_tracks |-> 5]

\* C22: for every num_tracks >= 1 and every progression the generated curve
\* equals the reference curve, in which every ramp is the truncated linear
\* interpolation over its own phase length.
C22_CurveEqualsReference ==
    call.fn = "_generate_energy_curve" /\ call.num_tracks >= 1
    => call.result = ReferenceCurve(call.num_tracks, call.progression)

(***************************************************************************)
(* generate_playlist on arcs constructed directly, JourneyArc(...), whose  *)
(* energy_curve may be shorter than num_tracks or empty                    *)
(***************************************************************************)
\* largest num_tracks of a directly constructed arc
MaxDirectTracks == 4

DirectCurves == { <<>>, <<2>>, <<5>>, <<3, 5>>, <<5, 6>> }

DirectArcs ==
    { [duration_minutes |-> 12, key_center |-> NoKey, bpm_range |-> <<60, 240>>,
       energy_curve |-> curve, num_tracks |-> n, preferred_labels |-> <<>>,
       blend_duration |-> 60] :
          curve \in DirectCurves, n \in 1..MaxDirectTracks }

DirectInit ==
    /\ tracks \in LoadedLibraries
    /\ tracks_by_key = rebuild_by_key(tracks, Len(tracks))
    /\ tracks_by_bpm = rebuild_by_bpm(tracks, Len(tracks))
    /\ journey_arc \in DirectArcs
    /\ strict_key = FALSE
    /\ prefer_labels = TRUE
    /\ pc = "arc"
    /\ selected_tracks = <<>>
    /\ transitions = <<>>
    /\ current_track = 0
    /\ i = 0
    /\ playlist = NoPlaylist
    /\ call = NoCall
    /\ threads = NoThreads
    /\ dj = NoDJ

DirectNext ==
    \/ GeneratePlaylist
    \/ SelectNextTrack
    \/ ReturnPlaylist

DirectSpec == DirectInit /\ [][DirectNext]_vars

\* 0-based plan position idx lies beyond the arc's energy curve
BeyondCurve(idx) == idx >= Len(journey_arc.energy_curve)

\* library entry j would pass the opener's filters with target energy e
OpenerAtTarget(j, e) ==
    /\ InArcRange(tracks[j])
    /\ Abs(tracks[j].energy_level - e) <= 1
    /\ PassesKeyCentre(j)

\* library entry j would pass the successor's hard filters after the
\* selected tracks, with target energy e
SuccessorAtTarget(j, e) ==
    LET current == tracks[selected_tracks[Len(selected_tracks)]]
    IN /\ \A m \in 1..Len(selected_tracks) :
             tracks[selected_tracks[m]].file_path # tracks[j].file_path
       /\ RatioInBands(tracks[j].bpm, current.bpm, 6)
       /\ strict_key /\ current.key # NoKey /\ tracks[j].key # NoKey
          => are_keys_compatible(current.key, tracks[j].key)
       /\ Abs(tracks[j].energy_level - e) <= 1
       /\ InArcRange(tracks[j])

\* the loop has stopped before num_tracks tracks were selected
StoppedShort ==
    /\ pc \in {"finalize", "returned"}
    /\ Len(selected_tracks) < journey_arc.num_tracks

\* every successor at a position beyond the curve was selected with target
\* energy 5, and the loop stopped at such a position only when no track
\* passed the hard filters with target energy 5
SuccessorsDefaultToFive ==
    /\ \A n \in 2..Len(selected_tracks) :
          BeyondCurve(n - 1) => Abs(tracks[selected_tracks[n]].energy_level - 5) <= 1
    /\ StoppedShort /\ BeyondCurve(Len(selected_tracks))
       => ~ \E j \in 1..Len(tracks) : SuccessorAtTarget(j, 5)

\* C23 as claimed: at every plan position i >= len(energy_curve), the opener
\* (i = 0) included, the planner uses target energy 5 and raises no error.
C23_Original ==
    /\ SuccessorsDefaultToFive
    /\ selected_tracks # <<>> /\ BeyondCurve(0)
       => Abs(tracks[selected_tracks[1]].energy_level - 5) <= 1
    /\ pc = "raised" /\ BeyondCurve(0)
       => ~ \E j \in 1..Len(tracks) : OpenerAtTarget(j, 5)

\* C23 as amended: at every successor position i >= 1 with
\* i >= len(energy_curve) the planner uses target energy 5 and raises no
\* error; for the opener of an arc with an empty energy_curve it uses target
\* energy 2, and fails with the no-opener error when no track fits that.
C23_DefaultTargets ==
    /\ SuccessorsDefaultToFive
    /\ selected_tracks # <<>> /\ BeyondCurve(0)
       => Abs(tracks[selected_tracks[1]].energy_level - 2) <= 1
    /\ pc = "raised" /\ BeyondCurve(0)
       => ~ \E j \in 1..Len(tracks) : OpenerAtTarget(j, 2)

\* a playlist of three or more tracks has been returned for an arc with an
\* empty energy_curve: the opener at energy 3, every successor at 4..6
C23_Witness ==
    /\ pc = "returned"
    /\ journey_arc.energy_curve = <<>>
    /\ Len(playlist.tracks) >= 3
    /\ tracks[playlist.tracks[1]].energy_level = 3
    /\ \A n \in 2..Len(playlist.tracks) :
          tracks[playlist.tracks[n]].energy_level \in 4..6

\* the incoming track of a transition is about twice as fast as the outgoing
\* one: get_compatible_tracks admitted it in its band around 2.0
TwiceAsFast(tr) ==
    RatioBetween(tracks[tr.track_b].bpm, tracks[tr.track_a].bpm, 194, 206)

\* C24: a transition's bpm_compatible flag is true exactly when
\* outgoing.bpm / incoming.bpm lies in [0.94, 1.06] or in [1.88, 2.12]; the
\* 1:2 band is not accepted, so a successor about twice as fast as the
\* current track gives a transition with bpm_compatible = false.
C24_TransitionTempoFlag ==
    \A k \in 1..Len(transitions) :
        LET tr == transitions[k]
            outgoing == tracks[tr.track_a].bpm
            incoming == tracks[tr.track_b].bpm
        IN /\ tr.bpm_compatible <=> \/ RatioBetween(outgoing, incoming, 94, 106)
                                    \/ RatioBetween(outgoing, incoming, 188, 212)
           /\ TwiceAsFast(tr) => ~tr.bpm_compatible

\* a returned playlist holds a transition into a track twice as fast as
\* the outgoing one, which get_compatible_tracks admitted, flagged
\* tempo-incompatible
C24_Witness ==
    /\ pc = "returned"
    /\ \E k \in 1..Len(playlist.transitions) :
          /\ tracks[playlist.transitions[k].track_b].bpm
                = 2 * tracks[playlist.transitions[k].track_a].bpm
          /\ TwiceAsFast(playlist.transitions[k])
          /\ ~playlist.transitions[k].bpm_compatible

\* C25: for every transition the fade-out start equals the outgoing track's
\* outro_start whenever that marker is set (any value >= 0, 0 included) and
\* max(0, duration - blend_duration) only when it is absent; the fade-in
\* start equals the incoming track's intro_start whenever that marker is set
\* and 0 only when it is absent.
C25_TransitionTimings ==
    \A k \in 1..Len(transitions) :
        LET tr == transitions[k]
            outgoing == tracks[tr.track_a]
            incoming == tracks[tr.track_b]
        IN /\ tr.start_time_a =
                 IF outgoing.outro_start # NoTime THEN outgoing.outro_start
                 ELSE Max(0, outgoing.duration - tr.blend_duration)
           /\ tr.start_time_b =
                 IF incoming.intro_start # NoTime THEN incoming.intro_start
                 ELSE 0

\* C26: get_compatible_tracks with key_compatible_only = True and a
\* reference track that has a key returns only tracks that have a key
\* harmonically compatible with the reference's key.
C26_KeyCompatibleOnly ==
    pc = "library" =>
        \A reference \in 1..Len(tracks), tol \in LibraryToleranceSet :
            tracks[reference].key # NoKey =>
                \A j \in Range(get_compatible_tracks(tracks, reference, tol, TRUE)) :
                    /\ tracks[j].key # NoKey
                    /\ are_keys_compatible(tracks[reference].key, tracks[j].key)

(***************************************************************************)
(* One generate_playlist call on a loaded library, run to its end: the     *)
(* call is sequential code, so each of its steps is taken once it is       *)
(* enabled (weak fairness on the three steps of the call)                  *)
(***************************************************************************)
PlanDurationSet == {0 - 12, 0, 12, 30}

PlanArcs ==
    { create_journey_arc(duration_minutes, NoKey, bpm_range, energy_progression, 60) :
          duration_minutes \in PlanDurationSet, bpm_range \in BpmRangeSet,
          energy_progression \in {"gradual_build", "steady"} }

PlanInit ==
    /\ tracks \in LoadedLibraries
    /\ tracks_by_key = rebuild_by_key(tracks, Len(tracks))
    /\ tracks_by_bpm = rebuild_by_bpm(tracks, Len(tracks))
    /\ journey_arc \in PlanArcs
    /\ strict_key = FALSE
    /\ prefer_labels = TRUE
    /\ pc = "arc"
    /\ selected_tracks = <<>>
    /\ transitions = <<>>
    /\ current_track = 0
    /\ i = 0
    /\ playlist = NoPlaylist
    /\ call = NoCall
    /\ threads = NoThreads
    /\ dj = NoDJ

PlanNext ==
    \/ GeneratePlaylist
    \/ SelectNextTrack
    \/ ReturnPlaylist

PlanSpec ==
    /\ PlanInit
    /\ [][PlanNext]_vars
    /\ WF_vars(GeneratePlaylist)
    /\ WF_vars(SelectNextTrack)
    /\ WF_vars(ReturnPlaylist)

\* the call has ended: with the no-opener error or with a playlist
Ended == pc \in {"raised", "returned"}

\* the three outcomes, of which an ended call has exactly one
NoOpenerOutcome ==
    pc = "raised" /\ selected_tracks = <<>> /\ playlist = NoPlaylist

CompleteOutcome ==
    pc = "returned" /\ Len(playlist.tracks) = journey_arc.num_tracks

TruncatedOutcome ==
    /\ pc = "returned"
    /\ 1 <= Len(playlist.tracks)
    /\ Len(playlist.tracks) < journey_arc.num_tracks

\* a successor selection is attempted only after an opener and at a loop
\* index below num_tracks, one index per selected track
SelectionsBounded ==
    pc = "selecting" =>
        /\ selected_tracks # <<>>
        /\ 1 <= i /\ i <= journey_arc.num_tracks - 1
        /\ Len(selected_tracks) = i

\* a selection that adds no track ends the loop, and after the loop no track
\* is selected and no selection is attempted
NoSelectionAfterFailure ==
    /\ pc = "selecting" /\ selected_tracks' = selected_tracks
       => pc' = "finalize"
    /\ pc \in {"finalize", "returned", "raised"}
       => selected_tracks' = selected_tracks /\ pc' # "selecting"

\* C27: for an arc built by create_journey_arc with duration >= 0 and a
\* blend below 360 seconds, a generate_playlist call ends, after at most
\* num_tracks - 1 successor selections, in exactly one of the no-opener
\* error, a complete playlist and a truncated playlist; no successor is
\* selected before an opener and none after the first failed selection.
C27_PlanTerminates ==
    /\ journey_arc.duration_minutes >= 0 => <>Ended
    /\ [](journey_arc.duration_minutes >= 0 =>
             /\ Ended => NoOpenerOutcome \/ CompleteOutcome \/ TruncatedOutcome
             /\ SelectionsBounded)
    /\ [][journey_arc.duration_minutes >= 0 => NoSelectionAfterFailure]_vars

\* a call for seven tracks has returned a truncated playlist of two or more
\* tracks: it selected successors, then a selection failed
C27_Witness ==
    /\ journey_arc.duration_minutes >= 0
    /\ TruncatedOutcome
    /\ Len(playlist.tracks) >= 2
    /\ journey_arc.num_tracks = 7

(***************************************************************************)
(* traktor_ai_dj.py: TraktorAIDJ after start().  The monitor thread runs   *)
(* monitor_playback and, inside it, start_transition; the MIDI input port  *)
(* calls _handle_midi_input on its own thread, between any two steps of    *)
(* the monitor.  dj.pc is the position of the monitor thread.              *)
(* playback_position is kept as the 0..127 value it is computed from       *)
(* (value / 127.0).  position_fresh is bookkeeping, not a field of the     *)
(* object: the position was reported by the active deck since that deck    *)
(* became the active one.                                                  *)
(***************************************************************************)
\* number of tracks of the loaded playlist
TotalTracks == 4

\* track duration taken from the audio analysis, in seconds
TrackDuration == 300

\* self.blend_duration = 75
blend_duration_seconds == 75

\* the values Traktor reports on the playback-position controls
PositionValues == {0, 64, 120}

Decks == {1, 2}

\* start(): track 0 on deck A, playing, the monitor thread at its loop
MonitorInit ==
    /\ LibraryInit
    /\ PlannerInit
    /\ call = NoCall
    /\ threads = NoThreads
    /\ dj = [state |-> "running", pc |-> "loop",
             active_deck |-> 1, next_deck |-> 2,
             current_track_index |-> 0, total_tracks |-> TotalTracks,
             is_playing |-> TRUE, is_transitioning |-> FALSE,
             playback_position |-> 0, track_duration |-> TrackDuration,
             position_fresh |-> FALSE]

\* time_remaining = track_duration * (1.0 - playback_position)
\*               <= blend_duration, with playback_position = value / 127.0
time_remaining_within_blend(d) ==
    d.track_duration * (127 - d.playback_position) <= 127 * blend_duration_seconds

\* the conditions of monitor_playback under which it calls start_transition
monitor_triggers(d) ==
    /\ d.is_playing
    /\ ~d.is_transitioning
    /\ d.track_duration > 0
    /\ time_remaining_within_blend(d)
    /\ d.current_track_index < d.total_tracks - 1

\* _handle_midi_input for a playback-position message of a deck
HandlePlaybackPosition(deck, value) ==
    /\ dj.state = "running"
    /\ dj' = IF deck = dj.active_deck
             THEN [dj EXCEPT !.playback_position = value, !.position_fresh = TRUE]
             ELSE dj
    /\ UNCHANGED <<library_vars, planner_vars, call, threads>>

\* _handle_midi_input for an is-playing message of a deck
HandleIsPlaying(deck, value) ==
    /\ dj.state = "running"
    /\ dj' = IF deck = dj.active_deck
             THEN [dj EXCEPT !.is_playing = (value > 0)]
             ELSE dj
    /\ UNCHANGED <<library_vars, planner_vars, call, threads>>

\* one pass of `while self.running:` that calls start_transition; a pass
\* that does not leaves the state as it is
MonitorPlayback ==
    /\ dj.state = "running"
    /\ dj.pc = "loop"
    /\ monitor_triggers(dj)
    /\ dj' = [dj EXCEPT !.pc = "start_transition"]
    /\ UNCHANGED <<library_vars, planner_vars, call, threads>>

\* start_transition up to the first statement of execute_crossfade: the
\* next track is loaded (its duration becomes track_duration), the next
\* deck plays, is_transitioning is set
StartTransition ==
    /\ dj.pc = "start_transition"
    /\ dj' = [dj EXCEPT !.pc = "crossfade",
                        !.track_duration = TrackDuration,
                        !.is_transitioning = TRUE]
    /\ UNCHANGED <<library_vars, planner_vars, call, threads>>

\* the crossfade loop ends: is_transitioning = False
ExecuteCrossfade ==
    /\ dj.pc = "crossfade"
    /\ dj' = [dj EXCEPT !.pc = "swap_decks", !.is_transitioning = FALSE]
    /\ UNCHANGED <<library_vars, planner_vars, call, threads>>

\* self.active_deck, self.next_deck = self.next_deck, self.active_deck
SwapDecks ==
    /\ dj.pc = "swap_decks"
    /\ dj' = [dj EXCEPT !.pc = "set_index",
                        !.active_deck = dj.next_deck,
                        !.next_deck = dj.active_deck,
                        !.position_fresh = FALSE]
    /\ UNCHANGED <<library_vars, planner_vars, call, threads>>

\* self.current_track_index = next_track_index; back in the monitor loop
SetCurrentTrackIndex ==
    /\ dj.pc = "set_index"
    /\ dj' = [dj EXCEPT !.pc = "loop",
                        !.current_track_index = dj.current_track_index + 1]
    /\ UNCHANGED <<library_vars, planner_vars, call, threads>>

MonitorNext ==
    \/ \E deck \in Decks, value \in PositionValues : HandlePlaybackPosition(deck, value)
    \/ \E deck \in Decks, value \in {0, 127} : HandleIsPlaying(deck, value)
    \/ MonitorPlayback
    \/ StartTransition
    \/ ExecuteCrossfade
    \/ SwapDecks
    \/ SetCurrentTrackIndex

MonitorSpec == MonitorInit /\ [][MonitorNext]_vars

\* C28: the monitor starts the transition out of the current track only on
\* a playback position that the track's own deck reported after it became
\* the active deck; a position left over from the previously active deck
\* never triggers start_transition.
C28_TransitionOnFreshPosition ==
    [][dj.pc = "loop" /\ dj'.pc = "start_transition" => dj.position_fresh]_vars

(***************************************************************************)
(* traktor_ai_dj.py: soft-takeover of the EQ and filter controls.  The     *)
(* automation (reset_eq, execute_eq_bass_swap) sends through _send_eq_cc   *)
(* on its thread; _handle_midi_input runs on the MIDI input thread between *)
(* any two statements of it.  _eq_override and _eq_last_sent are the two   *)
(* dicts, functions on the set of keys present.  dj.pc is the position of  *)
(* the automation inside _send_eq_cc.  knob_moved is bookkeeping, not a    *)
(* field of the object: the last incoming value on a commanded control     *)
(* was more than 2 away from the last commanded value.                     *)
(***************************************************************************)
EQ_CENTER == 64

EQ_MIN == 0

EQ_MAX == 127

\* the controls followed: deck A low EQ (52) and deck A filter (56)
TakeoverControls == {52, 56}

\* the EQ controls of both decks, which execute_eq_bass_swap marks
BassSwapControls == 50..55

\* range(50, 58)
EqFilterRange == 50..57

\* values the automation asks for; 200 is clamped to EQ_MAX
CommandValues == {EQ_MIN, EQ_CENTER, 200}

\* values of the physical knob: far from every commanded value, and within
\* 2 of EQ_CENTER
KnobValues == {20, 63}

\* max(self.EQ_MIN, min(self.EQ_MAX, value))
clamp_eq(value) ==
    IF value < EQ_MIN THEN EQ_MIN ELSE IF value > EQ_MAX THEN EQ_MAX ELSE value

\* abs(value - last) <= 2
within_takeover(value, last) ==
    Abs(value - last) <= 2

\* d[k] = v on a dict
dict_set(d, k, v) ==
    [x \in DOMAIN d \cup {k} |-> IF x = k THEN v ELSE d[x]]

\* self._eq_override.get(cc, False)
override_active(d, cc) ==
    IF cc \in DOMAIN d.eq_override THEN d.eq_override[cc] ELSE FALSE

\* __init__: both dicts empty
TakeoverInit ==
    /\ LibraryInit
    /\ PlannerInit
    /\ call = NoCall
    /\ threads = NoThreads
    /\ dj = [state |-> "eq", pc |-> "idle", cc |-> 0, value |-> 0,
             eq_override |-> <<>>, eq_last_sent |-> <<>>,
             knob_moved |-> [c \in TakeoverControls |-> FALSE]]

\* the soft-takeover branch of _handle_midi_input
handle_eq_control(d, cc, value) ==
    IF cc \in DOMAIN d.eq_last_sent /\ cc \in DOMAIN d.eq_override
    THEN IF d.eq_override[cc]
         THEN IF within_takeover(value, d.eq_last_sent[cc])
              THEN dict_set(d.eq_override, cc, FALSE)
              ELSE d.eq_override
         ELSE dict_set(d.eq_override, cc, TRUE)
    ELSE d.eq_override

\* _handle_midi_input for a control change on one of CC 50..57
HandleEqControl(cc, value) ==
    /\ dj.state = "eq"
    /\ cc \in EqFilterRange
    /\ dj' = [dj EXCEPT !.eq_override = handle_eq_control(dj, cc, value),
                        !.knob_moved[cc] =
                            IF cc \in DOMAIN dj.eq_last_sent
                            THEN ~within_takeover(value, dj.eq_last_sent[cc])
                            ELSE @]
    /\ UNCHANGED <<library_vars, planner_vars, call, threads>>

\* _send_eq_cc up to its test: return when the override is active
SendEqCcTest(cc, value) ==
    /\ dj.state = "eq"
    /\ dj.pc = "idle"
    /\ dj' = IF override_active(dj, cc)
             THEN dj
             ELSE [dj EXCEPT !.pc = "send", !.cc = cc, !.value = clamp_eq(value)]
    /\ UNCHANGED <<library_vars, planner_vars, call, threads>>

\* _send_eq_cc after its test: record the value and send it
SendEqCcSend ==
    /\ dj.state = "eq"
    /\ dj.pc = "send"
    /\ dj' = [dj EXCEPT !.pc = "idle", !.cc = 0, !.value = 0,
                        !.eq_last_sent = dict_set(@, dj.cc, dj.value)]
    /\ UNCHANGED <<library_vars, planner_vars, call, threads>>

RECURSIVE mark_automation_active(_, _)
\* for cc in eq_ccs: self._eq_override[cc] = False
mark_automation_active(override, ccs) ==
    IF ccs = {} THEN override
    ELSE LET cc == CHOOSE c \in ccs : TRUE
         IN mark_automation_active(dict_set(override, cc, FALSE), ccs \ {cc})

\* the head of execute_eq_bass_swap; its set_eq and set_filter calls follow
\* as _send_eq_cc steps
ExecuteEqBassSwap ==
    /\ dj.state = "eq"
    /\ dj.pc = "idle"
    /\ dj' = [dj EXCEPT !.eq_override =
                  mark_automation_active(@, BassSwapControls \cap TakeoverControls)]
    /\ UNCHANGED <<library_vars, planner_vars, call, threads>>

TakeoverNext ==
    \/ \E cc \in TakeoverControls, value \in KnobValues : HandleEqControl(cc, value)
    \/ \E cc \in TakeoverControls, value \in CommandValues : SendEqCcTest(cc, value)
    \/ SendEqCcSend
    \/ ExecuteEqBassSwap

TakeoverSpec == TakeoverInit /\ [][TakeoverNext]_vars

\* C29: once a control change has come in on an EQ or filter control that
\* has a commanded value, _send_eq_cc sends nothing on that control and
\* leaves its last commanded value as it is, until a value within 2 of the
\* last commanded value comes in.
C29_SoftTakeoverPauses ==
    [][dj.pc = "send" /\ dj'.pc = "idle" => ~dj.knob_moved[dj.cc]]_vars

(***************************************************************************)
(* intelligent_dj.py: IntelligentDJ.run_intelligent_mix over a parsed mix  *)
(* plan.  dj.tracks holds the track_number of each TrackMixPlan; mix_out   *)
(* is the mix-out point of every track in seconds; total_tracks is the     *)
(* length of the playlist of the base class, 0 when none was loaded.       *)
(* dj.pc is the position inside the main loop.  crossfades, on_deck and    *)
(* blend_planned are bookkeeping, not fields of the object: the number of  *)
(* execute_crossfade calls, the track number last loaded to each deck (0   *)
(* for none), and whether the last crossfade went to a deck whose track    *)
(* had a plan and was loaded.                                              *)
(***************************************************************************)
\* longest mix plan
MaxPlanTracks == 3

\* seconds the loop's clock advances between two looks at it
ClockStep == 150

\* return current_position_seconds >= 300 when the track has no plan
fallback_mix_out == 300

\* execute_crossfade(75, ...) when there is no transition data
default_blend == 75

\* mix-out points of the plan, in seconds
MixOutSet == {150, 300}

\* get_track_by_number: the plan with that number, None when there is none
get_track_by_number(d, track_number) ==
    IF \E k \in 1..Len(d.tracks) : d.tracks[k] = track_number
    THEN d.tracks[CHOOSE k \in 1..Len(d.tracks) : d.tracks[k] = track_number]
    ELSE 0

\* get_transition_data is None exactly when the to-track has no plan
has_transition_data(d, from_track, to_track) ==
    get_track_by_number(d, to_track) # 0

should_start_transition(d, current_position_seconds) ==
    IF get_track_by_number(d, d.current_track_number) = 0
    THEN current_position_seconds >= fallback_mix_out
    ELSE current_position_seconds >= d.mix_out

\* load_track_to_deck sends the load only with a playlist and an index in it
load_track_to_deck(d, track_index, deck) ==
    IF d.total_tracks = 0 \/ track_index >= d.total_tracks
    THEN d.on_deck
    ELSE [d.on_deck EXCEPT ![deck] = track_index + 1]

\* run_intelligent_mix up to its main loop: track 1 current, track 2 next,
\* track index 0 loaded to the active deck
MixInit ==
    /\ LibraryInit
    /\ PlannerInit
    /\ call = NoCall
    /\ threads = NoThreads
    /\ \E n \in 1..MaxPlanTracks, total \in 0..MaxPlanTracks, out \in MixOutSet :
          /\ total \in {0, n}
          /\ dj = [state |-> "mix", pc |-> "loop",
                   tracks |-> [k \in 1..n |-> k], mix_out |-> out,
                   total_tracks |-> total,
                   current_track_number |-> 1, next_track_number |-> 2,
                   active_deck |-> 1, next_deck |-> 2,
                   current_position |-> 0,
                   crossfades |-> 0,
                   on_deck |-> [x \in Decks |-> IF x = 1 /\ total > 0 THEN 1 ELSE 0],
                   blend_planned |-> TRUE]

\* a pass of the loop before the transition point: time.sleep(1)
Sleep ==
    /\ dj.state = "mix"
    /\ dj.pc = "loop"
    /\ ~should_start_transition(dj, dj.current_position)
    /\ dj' = [dj EXCEPT !.current_position = @ + ClockStep]
    /\ UNCHANGED <<library_vars, planner_vars, call, threads>>

\* the transition point is reached: load_next_track_intelligent, then sync
\* and play the next deck
LoadNextTrackIntelligent ==
    /\ dj.state = "mix"
    /\ dj.pc = "loop"
    /\ should_start_transition(dj, dj.current_position)
    /\ dj' = [dj EXCEPT !.pc = "blend",
                        !.on_deck =
                            IF get_track_by_number(dj, dj.next_track_number) = 0
                            THEN @
                            ELSE load_track_to_deck(dj, dj.next_track_number - 1, dj.next_deck)]
    /\ UNCHANGED <<library_vars, planner_vars, call, threads>>

\* execute_intelligent_blend: a crossfade to the next deck, with the plan's
\* duration or with the default one
ExecuteIntelligentBlend ==
    /\ dj.state = "mix"
    /\ dj.pc = "blend"
    /\ dj' = [dj EXCEPT !.pc = "advance",
                        !.crossfades = @ + 1,
                        !.blend_planned =
                            /\ has_transition_data(dj, dj.current_track_number, dj.next_track_number)
                            /\ dj.on_deck[dj.next_deck] = dj.next_track_number]
    /\ UNCHANGED <<library_vars, planner_vars, call, threads>>

\* swap the decks, move to the next tracks, reset the timer, then the test
\* `current_track_number > len(self.tracks)`
MoveToNextTracks ==
    /\ dj.state = "mix"
    /\ dj.pc = "advance"
    /\ dj' = [dj EXCEPT !.active_deck = dj.next_deck,
                        !.next_deck = dj.active_deck,
                        !.current_track_number = @ + 1,
                        !.next_track_number = @ + 1,
                        !.current_position = 0,
                        !.pc = IF dj.current_track_number + 1 > Len(dj.tracks)
                               THEN "complete" ELSE "loop"]
    /\ UNCHANGED <<library_vars, planner_vars, call, threads>>

MixNext ==
    \/ Sleep
    \/ LoadNextTrackIntelligent
    \/ ExecuteIntelligentBlend
    \/ MoveToNextTracks

MixSpec == MixInit /\ [][MixNext]_vars

\* C30: for a plan of N tracks the mix is reported complete after exactly
\* N - 1 transitions, and every crossfade goes to a deck whose next track
\* had a plan and was loaded.
C30_TransitionsPerPlan ==
    /\ dj.pc = "complete" => dj.crossfades = Len(dj.tracks) - 1
    /\ dj.pc = "advance" => dj.blend_planned

====
